---- MODULE Spec2Model ----
(***************************************************************************)
(* Model of the entity-resolution and schema-aware query-planning engine   *)
(* of orion-salesforce-mcp-server: the intelligent object resolver         *)
(* (services/intelligentResolver.js), the schema index and field selector  *)
(* (services/schemaIndex.js) and the relationship planner                  *)
(* (services/llmQueryGenerator.js).                                        *)
(*                                                                         *)
(* Strings are TLA+ strings; a character is a string of length 1.          *)
(* Confidences are exact rationals [n, d] (d > 0): the code computes them  *)
(* in IEEE doubles, the model in exact arithmetic.                         *)
(***************************************************************************)
EXTENDS Integers, Sequences, FiniteSets, TLC

\* ------------------------------------------------------------------------
\* String primitives (String.prototype.* as the code uses them)
\* ------------------------------------------------------------------------

CharAt(s, i) == SubSeq(s, i, i)

UpperAlpha == "ABCDEFGHIJKLMNOPQRSTUVWXYZ"
LowerAlpha == "abcdefghijklmnopqrstuvwxyz"
Digits == "0123456789"

UpperSet == {CharAt(UpperAlpha, i) : i \in 1..26}
LowerSet == {CharAt(LowerAlpha, i) : i \in 1..26}
DigitSet == {CharAt(Digits, i) : i \in 1..10}

\* \w of a JavaScript regular expression: [A-Za-z0-9_]
WordChars == UpperSet \cup LowerSet \cup DigitSet \cup {"_"}

\* \s of a JavaScript regular expression, restricted to the blanks the
\* modelled labels and questions contain
SpaceChars == {" "}

LowerOfChar ==
  [c \in UpperSet |-> CharAt(LowerAlpha, CHOOSE i \in 1..26 : CharAt(UpperAlpha, i) = c)]

RECURSIVE LowerFrom(_, _)
LowerFrom(s, i) ==
  IF i > Len(s) THEN ""
  ELSE LET c == CharAt(s, i)
       IN (IF c \in UpperSet THEN LowerOfChar[c] ELSE c) \o LowerFrom(s, i + 1)

\* String.prototype.toLowerCase
ToLowerCase(s) == LowerFrom(s, 1)

\* String.prototype.includes
Includes(hay, needle) ==
  \E i \in 0..(Len(hay) - Len(needle)) : SubSeq(hay, i + 1, i + Len(needle)) = needle

\* String.prototype.startsWith / endsWith
StartsWith(s, p) == Len(p) <= Len(s) /\ SubSeq(s, 1, Len(p)) = p
EndsWith(s, p) == Len(p) <= Len(s) /\ SubSeq(s, Len(s) - Len(p) + 1, Len(s)) = p

\* Array.prototype.includes on a sequence
SeqIncludes(seq, x) == \E i \in 1..Len(seq) : seq[i] = x

RECURSIVE StripFrom(_, _, _)
StripFrom(s, i, drop) ==
  IF i > Len(s) THEN ""
  ELSE (IF CharAt(s, i) \in drop THEN "" ELSE CharAt(s, i)) \o StripFrom(s, i + 1, drop)

\* s.replace(/\s+/g, '')
RemoveWhitespace(s) == StripFrom(s, 1, SpaceChars)

\* s.replace(/__c$/, '')
StripCustomSuffix(s) == IF EndsWith(s, "__c") THEN SubSeq(s, 1, Len(s) - 3) ELSE s

\* The maximal runs of \w characters of s, left to right.  A regular
\* expression \b(w1|w2|...)\b whose alternatives are made of \w characters
\* matches exactly the runs that equal an alternative.
RECURSIVE TokensFrom(_, _, _)
TokensFrom(s, i, cur) ==
  IF i > Len(s) THEN (IF cur = "" THEN <<>> ELSE <<cur>>)
  ELSE IF CharAt(s, i) \in WordChars THEN TokensFrom(s, i + 1, cur \o CharAt(s, i))
  ELSE (IF cur = "" THEN <<>> ELSE <<cur>>) \o TokensFrom(s, i + 1, "")

Tokens(s) == TokensFrom(s, 1, "")

RECURSIVE AllCharsIn(_, _, _)
AllCharsIn(s, i, set) ==
  i > Len(s) \/ (CharAt(s, i) \in set /\ AllCharsIn(s, i + 1, set))

\* ------------------------------------------------------------------------
\* Exact rationals
\* ------------------------------------------------------------------------

RECURSIVE GCD(_, _)
GCD(a, b) == IF b = 0 THEN a ELSE GCD(b, a % b)

Abs(n) == IF n < 0 THEN 0 - n ELSE n

\* n/d in lowest terms; a zero is 0/1
Rat(n, d) ==
  LET g == GCD(Abs(n), d)
  IN [n |-> n \div g, d |-> d \div g]

RAdd(a, b) == Rat(a.n * b.d + b.n * a.d, a.d * b.d)
RLt(a, b) == a.n * b.d < b.n * a.d
RLe(a, b) == a.n * b.d <= b.n * a.d
REq(a, b) == a.n * b.d = b.n * a.d
RMin(a, b) == IF RLt(b, a) THEN b ELSE a
RMax(a, b) == IF RLt(a, b) THEN b ELSE a
RZero == Rat(0, 1)
ROne == Rat(1, 1)

\* ------------------------------------------------------------------------
\* Similarity kernel
\* ------------------------------------------------------------------------

\* Mutant: the deletion is left out of the minimum
Min3_FirstTwo(a, b, c) == IF a <= b THEN a ELSE b

Min3(a, b, c) == IF a <= b /\ a <= c THEN a ELSE IF b <= c THEN b ELSE c

\* One row of the matrix: row i (a character of str2) from row i-1 (prev);
\* acc holds the cells matrix[i][0..j-1] already computed.
RECURSIVE LevRow(_, _, _, _, _)
LevRow(str1, str2, i, prev, acc) ==
  LET j == Len(acc)
  IN IF j > Len(str1) THEN acc
     ELSE LevRow(str1, str2, i, prev,
            Append(acc,
              IF CharAt(str2, i) = CharAt(str1, j)
              THEN prev[j]
              ELSE Min3(prev[j] + 1, acc[j] + 1, prev[j + 1] + 1)))

RECURSIVE LevRows(_, _, _, _)
LevRows(str1, str2, i, prev) ==
  IF i > Len(str2) THEN prev
  ELSE LevRows(str1, str2, i + 1, LevRow(str1, str2, i, prev, <<i>>))

\* levenshteinDistance: matrix[str2.length][str1.length]; a row is the
\* sequence of its cells 0..str1.length, stored at indexes 1..str1.length+1
levenshteinDistance(str1, str2) ==
  LevRows(str1, str2, 1, [j \in 1..(Len(str1) + 1) |-> j - 1])[Len(str1) + 1]

\* Mutant: the first argument is taken for the longer string
calculateSimilarity_FirstIsLonger(str1, str2) ==
  IF str1 = "" \/ str2 = "" THEN RZero
  ELSE Rat(Len(str1) - levenshteinDistance(str1, str2), Len(str1))

\* calculateSimilarity, as a rational
calculateSimilarity(str1, str2) ==
  IF str1 = "" \/ str2 = "" THEN RZero
  ELSE LET longer == IF Len(str1) > Len(str2) THEN str1 ELSE str2
           shorter == IF Len(str1) > Len(str2) THEN str2 ELSE str1
       IN Rat(Len(longer) - levenshteinDistance(longer, shorter), Len(longer))

\* ------------------------------------------------------------------------
\* Classification rules
\* ------------------------------------------------------------------------

exactProblematicObjects ==
  { "FlowOrchestrationWorkItem", "ProcessInstance", "ProcessInstanceHistory",
    "ProcessInstanceStep", "ProcessInstanceWorkitem", "WorkflowAlert",
    "WorkflowEmailRecipient", "WorkflowFieldUpdate", "WorkflowKnowledgePublish",
    "WorkflowOutboundMessage", "WorkflowRule", "WorkflowTask", "UserRecordAccess",
    "ObjectPermissions", "FieldPermissions", "SetupEntityAccess", "AsyncApexJob",
    "ApexTestQueueItem", "ApexTestResult", "ApexTestRunResult", "SearchActivity",
    "RecentlyViewed", "LoginHistory", "EventLogFile", "DuplicateRecordItem",
    "DuplicateRecordSet", "EntitySubscription", "FeedItem", "FeedComment",
    "UserFeed", "NewsFeed", "UserDefinedLabelAssignment", "UserDefinedLabel",
    "ValidationRule", "RecordType", "BusinessProcess", "PicklistValueInfo",
    "StandardValueSet", "GlobalValueSet" }

\* /^(p1|p2|...)/i, /(p1|...)$/i and /(p1|...)/i on a name: the alternatives
\* are given in lower case and tested on the lower-cased name
PrefixCI(lower, alts) == \E p \in alts : StartsWith(lower, p)
SuffixCI(lower, alts) == \E p \in alts : EndsWith(lower, p)
ContainsCI(lower, alts) == \E p \in alts : Includes(lower, p)

problematicPrefixes ==
  {"floworchestration", "processinstance", "workflow", "userdefined", "metadata", "setup"}

problematicSuffixes == {"workitem", "assignment", "rule", "process", "alert"}

\* isProblematicSystemObject: the exact denylist, then the patterns
isProblematicSystemObject(apiName) ==
  LET lower == ToLowerCase(apiName)
  IN \/ apiName \in exactProblematicObjects
     \/ PrefixCI(lower, problematicPrefixes)
     \/ SuffixCI(lower, problematicSuffixes)

systemObjects ==
  { "EntitySubscription", "FeedItem", "FeedComment", "UserFeed", "NewsFeed",
    "DuplicateRecordItem", "DuplicateRecordSet", "RecordAction", "RecordType",
    "BusinessHours", "Holiday", "Territory", "FiscalYearSettings",
    "CurrencyType", "Category", "CategoryNode", "CategoryData",
    "FlowOrchestrationWorkItem", "ProcessException", "AssignmentRule",
    "Queue", "Group", "GroupMember", "QueueSobject",
    "ActivityHistory", "OpenActivity", "CombinedAttachment", "NoteAndAttachment",
    "AttachedContentDocument", "AttachedContentNote",
    "SearchActivity", "RecentlyViewed", "OwnedItemHistory" }

systemSuffixes == {"__share", "__history", "__feed", "__tag"}

systemPrefixes ==
  { "flow", "process", "workitem", "orchestration",
    "platform", "setup", "lightning", "component", "custom", "static", "dynamic",
    "attached", "combined", "collaboration" }

systemInfixes ==
  { "floworchestration", "processinstance", "workflowrule",
    "permission", "userrole", "profile", "userlicense", "login", "session",
    "objectpermissions", "fieldpermissions", "userrecordaccess",
    "organization", "domain", "network", "site", "community",
    "asyncapex", "apexclass", "apextrigger", "apexpage", "apexcomponent",
    "changeevent", "changetracking", "datachangelog", "audittrail",
    "contentdocument", "contentversion", "contentworkspace", "document", "folder",
    "callcenter", "emailtemplate", "mailmergetemplate", "weblink", "dashboard" }

adminCustomSuffixes ==
  {"system__c", "platform__c", "setup__c", "config__c", "settings__c", "admin__c"}

\* /^[a-zA-Z0-9_]+__c$/
IsCustomApiName(apiName) ==
  /\ Len(apiName) > 3
  /\ EndsWith(apiName, "__c")
  /\ AllCharsIn(apiName, 1, WordChars)

isSystemObject(apiName) ==
  LET lower == ToLowerCase(apiName)
  IN \/ SuffixCI(lower, systemSuffixes)
     \/ PrefixCI(lower, systemPrefixes)
     \/ ContainsCI(lower, systemInfixes)
     \/ apiName \in systemObjects
     \/ (IsCustomApiName(apiName) /\ SuffixCI(lower, adminCustomSuffixes))

\* ------------------------------------------------------------------------
\* Catalog index
\* ------------------------------------------------------------------------

\* An object of the lister: [name, label, labelPlural, custom]; a missing
\* label or plural label is "" (the code reads both through `|| ''`).
\* The catalog (a Map, iterated in insertion order) is a sequence of
\* [key, objects] entries with distinct keys.

CatalogIndexOf(catalog, key) ==
  IF \E i \in 1..Len(catalog) : catalog[i].key = key
  THEN CHOOSE i \in 1..Len(catalog) : catalog[i].key = key
  ELSE 0

\* catalog.get(key) || []
CatalogGet(catalog, key) ==
  LET i == CatalogIndexOf(catalog, key)
  IN IF i = 0 THEN <<>> ELSE catalog[i].objects

\* if (!catalog.has(key)) catalog.set(key, []); catalog.get(key).push(desc)
CatalogPush(catalog, key, desc) ==
  LET i == CatalogIndexOf(catalog, key)
  IN IF i = 0
     THEN Append(catalog, [key |-> key, objects |-> <<desc>>])
     ELSE [catalog EXCEPT ![i].objects = Append(@, desc)]

\* The variant keys registered for one object, in order
VariantEntries(obj) ==
  SelectSeq(<< [key |-> ToLowerCase(obj.name), type |-> "api"],
               [key |-> ToLowerCase(obj.label), type |-> "label"],
               [key |-> ToLowerCase(obj.labelPlural), type |-> "labelPlural"] >>,
            LAMBDA e : e.key # "")
  \o << [key |-> ToLowerCase(StripCustomSuffix(obj.name)), type |-> "api_short"],
        [key |-> ToLowerCase(RemoveWhitespace(obj.label)), type |-> "label_compact"] >>

Descriptor(obj, type) ==
  [apiName |-> obj.name, label |-> obj.label, labelPlural |-> obj.labelPlural,
   custom |-> obj.custom, matchedBy |-> type]

RECURSIVE PushEntries(_, _, _, _)
PushEntries(catalog, obj, entries, k) ==
  IF k > Len(entries) THEN catalog
  ELSE PushEntries(CatalogPush(catalog, entries[k].key, Descriptor(obj, entries[k].type)),
                   obj, entries, k + 1)

\* Mutant: the forbidden test is lost, only the system test skips
SkippedByCatalog_KeepForbidden(obj, includeSystemObjects) ==
  ~includeSystemObjects /\ isSystemObject(obj.name)

\* Mutant: the system test is lost, only the forbidden test skips
SkippedByCatalog_KeepSystem(obj, includeSystemObjects) ==
  isProblematicSystemObject(obj.name)

\* The two `continue` tests at the head of the loop body
SkippedByCatalog(obj, includeSystemObjects) ==
  \/ isProblematicSystemObject(obj.name)
  \/ (~includeSystemObjects /\ isSystemObject(obj.name))

RECURSIVE CatalogLoop(_, _, _, _)
CatalogLoop(catalog, sobjects, i, includeSystemObjects) ==
  IF i > Len(sobjects) THEN catalog
  ELSE IF SkippedByCatalog(sobjects[i], includeSystemObjects)
       THEN CatalogLoop(catalog, sobjects, i + 1, includeSystemObjects)
       ELSE CatalogLoop(PushEntries(catalog, sobjects[i], VariantEntries(sobjects[i]), 1),
                        sobjects, i + 1, includeSystemObjects)

\* Mutant: the await is outside the try, a rejection leaves the function
buildComprehensiveCatalog_NoCatch(sf, includeSystemObjects) ==
  IF sf.ok
  THEN [threw |-> FALSE, catalog |-> CatalogLoop(<<>>, sf.sobjects, 1, includeSystemObjects)]
  ELSE [threw |-> TRUE, catalog |-> <<>>]

\* buildComprehensiveCatalog: sf is the lister's outcome, [ok, sobjects].
\* The try block encloses the await of listSObjects(), so a rejection lands
\* in the catch, which returns the empty Map; threw tells whether an
\* exception leaves the function.
buildComprehensiveCatalog(sf, includeSystemObjects) ==
  IF sf.ok
  THEN [threw |-> FALSE, catalog |-> CatalogLoop(<<>>, sf.sobjects, 1, includeSystemObjects)]
  ELSE [threw |-> FALSE, catalog |-> <<>>]

\* ------------------------------------------------------------------------
\* Entity resolver: keyword extraction
\* ------------------------------------------------------------------------

\* The business-term patterns /\b(w1|w2|...)\b/g, in the order of the source
businessPatterns ==
  << {"account", "accounts", "customer", "customers", "client", "clients"},
     {"contact", "contacts", "person", "people", "individual"},
     {"opportunity", "opportunities", "deal", "deals", "sale", "sales"},
     {"lead", "leads", "prospect", "prospects"},
     {"case", "cases", "ticket", "tickets", "issue", "issues"},
     {"product", "products", "item", "items"},
     {"order", "orders", "purchase", "purchases"},
     {"invoice", "invoices", "bill", "bills"} >>

\* /\b([a-z][a-z0-9_]*__c)\b/g on one \w-run of the lower-cased question
IsLowerCustomToken(t) ==
  /\ Len(t) >= 4
  /\ CharAt(t, 1) \in LowerSet
  /\ EndsWith(t, "__c")
  /\ AllCharsIn(t, 1, LowerSet \cup DigitSet \cup {"_"})

\* /\b[A-Z][a-zA-Z0-9_]*__c\b/g on one \w-run of the question
IsApiToken(t) ==
  /\ Len(t) >= 4
  /\ CharAt(t, 1) \in UpperSet
  /\ EndsWith(t, "__c")

\* Set.prototype.add on an insertion-ordered set
SetAdd(seq, e) == IF SeqIncludes(seq, e) THEN seq ELSE Append(seq, e)

RECURSIVE SetAddAll(_, _, _)
SetAddAll(seq, items, k) ==
  IF k > Len(items) THEN seq ELSE SetAddAll(SetAdd(seq, items[k]), items, k + 1)

RECURSIVE AddPatternMatches(_, _, _)
AddPatternMatches(keywords, toks, p) ==
  IF p > Len(businessPatterns) THEN keywords
  ELSE AddPatternMatches(
         SetAddAll(keywords, SelectSeq(toks, LAMBDA t : t \in businessPatterns[p]), 1),
         toks, p + 1)

RECURSIVE MapLower(_, _)
MapLower(seq, k) ==
  IF k > Len(seq) THEN <<>> ELSE <<ToLowerCase(seq[k])>> \o MapLower(seq, k + 1)

\* The inner loop over the synonyms of one objectSynonyms entry
RECURSIVE AddSynonyms(_, _, _, _, _)
AddSynonyms(keywords, lower, apiName, synonyms, k) ==
  IF k > Len(synonyms) THEN keywords
  ELSE AddSynonyms(
         IF Includes(lower, ToLowerCase(synonyms[k]))
         THEN SetAdd(SetAdd(keywords, ToLowerCase(synonyms[k])), ToLowerCase(apiName))
         ELSE keywords,
         lower, apiName, synonyms, k + 1)

\* objectSynonyms is the sequence of Object.entries: [apiName, synonyms]
RECURSIVE AddSynonymEntries(_, _, _, _)
AddSynonymEntries(keywords, lower, objectSynonyms, e) ==
  IF e > Len(objectSynonyms) THEN keywords
  ELSE AddSynonymEntries(
         AddSynonyms(keywords, lower, objectSynonyms[e].apiName,
                     objectSynonyms[e].synonyms, 1),
         lower, objectSynonyms, e + 1)

extractObjectKeywords(question, orgProfile) ==
  LET lower == ToLowerCase(question)
      toks == Tokens(lower)
      k1 == AddPatternMatches(<<>>, toks, 1)
      k2 == SetAddAll(k1, SelectSeq(toks, IsLowerCustomToken), 1)
      k3 == SetAddAll(k2, MapLower(SelectSeq(Tokens(question), IsApiToken), 1), 1)
      k4 == AddSynonymEntries(k3, lower, orgProfile.objectSynonyms, 1)
  IN SelectSeq(k4, LAMBDA k : Len(k) > 2)

\* ------------------------------------------------------------------------
\* Entity resolver: candidate stages
\* ------------------------------------------------------------------------

\* findExactMatches
findExactMatches(keyword, catalog) == CatalogGet(catalog, keyword)

RECURSIVE WithConfidence(_, _, _)
WithConfidence(objects, confidence, k) ==
  IF k > Len(objects) THEN <<>>
  ELSE << [apiName |-> objects[k].apiName, label |-> objects[k].label,
           labelPlural |-> objects[k].labelPlural, custom |-> objects[k].custom,
           matchedBy |-> objects[k].matchedBy, confidence |-> confidence] >>
       \o WithConfidence(objects, confidence, k + 1)

IntMin(a, b) == IF a < b THEN a ELSE b
IntMax(a, b) == IF a > b THEN a ELSE b

\* Mutant: only a key that contains the keyword matches
RECURSIVE PartialFrom_KeyContainsKeyword(_, _, _)
PartialFrom_KeyContainsKeyword(keyword, catalog, i) ==
  IF i > Len(catalog) THEN <<>>
  ELSE LET key == catalog[i].key
       IN (IF Includes(key, keyword)
           THEN WithConfidence(catalog[i].objects,
                  Rat(IntMin(Len(keyword), Len(key)), IntMax(Len(keyword), Len(key))), 1)
           ELSE <<>>)
          \o PartialFrom_KeyContainsKeyword(keyword, catalog, i + 1)

\* findPartialMatches: substring containment in either direction, each hit
\* with confidence min(len)/max(len)
RECURSIVE PartialFrom(_, _, _)
PartialFrom(keyword, catalog, i) ==
  IF i > Len(catalog) THEN <<>>
  ELSE LET key == catalog[i].key
       IN (IF Includes(key, keyword) \/ Includes(keyword, key)
           THEN WithConfidence(catalog[i].objects,
                  Rat(IntMin(Len(keyword), Len(key)), IntMax(Len(keyword), Len(key))), 1)
           ELSE <<>>)
          \o PartialFrom(keyword, catalog, i + 1)

findPartialMatches(keyword, catalog) == PartialFrom(keyword, catalog, 1)

\* Array.prototype.sort((a, b) => b.confidence - a.confidence): stable,
\* descending by confidence
RECURSIVE InsertByConfidence(_, _, _)
InsertByConfidence(sorted, m, k) ==
  IF k > Len(sorted) THEN Append(sorted, m)
  ELSE IF RLt(sorted[k].confidence, m.confidence)
       THEN SubSeq(sorted, 1, k - 1) \o <<m>> \o SubSeq(sorted, k, Len(sorted))
       ELSE InsertByConfidence(sorted, m, k + 1)

RECURSIVE SortFrom(_, _, _)
SortFrom(sorted, ms, k) ==
  IF k > Len(ms) THEN sorted
  ELSE SortFrom(InsertByConfidence(sorted, ms[k], 1), ms, k + 1)

SortByConfidence(ms) == SortFrom(<<>>, ms, 1)

\* findFuzzyMatches: every key whose similarity reaches the threshold
RECURSIVE FuzzyFrom(_, _, _, _)
FuzzyFrom(keyword, catalog, threshold, i) ==
  IF i > Len(catalog) THEN <<>>
  ELSE LET similarity == calculateSimilarity(keyword, catalog[i].key)
       IN (IF RLe(threshold, similarity)
           THEN WithConfidence(catalog[i].objects, similarity, 1)
           ELSE <<>>)
          \o FuzzyFrom(keyword, catalog, threshold, i + 1)

findFuzzyMatches(keyword, catalog, threshold) ==
  SortByConfidence(FuzzyFrom(keyword, catalog, threshold, 1))

\* matches.push({ ...match, confidence?, matchType, keyword })
Candidate(m, confidence, matchType, keyword) ==
  [apiName |-> m.apiName, label |-> m.label, labelPlural |-> m.labelPlural,
   custom |-> m.custom, matchedBy |-> m.matchedBy,
   confidence |-> confidence, matchType |-> matchType, keyword |-> keyword]

RECURSIVE Candidates(_, _, _, _, _)
Candidates(ms, fixed, matchType, keyword, k) ==
  IF k > Len(ms) THEN <<>>
  ELSE << Candidate(ms[k], IF fixed = <<>> THEN ms[k].confidence ELSE fixed[1],
                    matchType, keyword) >>
       \o Candidates(ms, fixed, matchType, keyword, k + 1)

\* Stage 1: every literal catalog hit of every keyword, confidence 1.0
RECURSIVE ExactCandidates(_, _, _)
ExactCandidates(keywords, catalog, k) ==
  IF k > Len(keywords) THEN <<>>
  ELSE Candidates(WithConfidence(findExactMatches(keywords[k], catalog), ROne, 1),
                  <<ROne>>, "exact", keywords[k], 1)
       \o ExactCandidates(keywords, catalog, k + 1)

\* Stage 2: every partial hit of every keyword; the literal `confidence: 0.8`
\* follows the spread of the match and replaces its confidence
RECURSIVE PartialCandidates(_, _, _)
PartialCandidates(keywords, catalog, k) ==
  IF k > Len(keywords) THEN <<>>
  ELSE Candidates(findPartialMatches(keywords[k], catalog),
                  <<Rat(8, 10)>>, "partial", keywords[k], 1)
       \o PartialCandidates(keywords, catalog, k + 1)

\* Stage 3: the fuzzy hits keep the similarity as their confidence
RECURSIVE FuzzyCandidates(_, _, _, _)
FuzzyCandidates(keywords, catalog, threshold, k) ==
  IF k > Len(keywords) THEN <<>>
  ELSE Candidates(findFuzzyMatches(keywords[k], catalog, threshold),
                  <<>>, "fuzzy", keywords[k], 1)
       \o FuzzyCandidates(keywords, catalog, threshold, k + 1)

\* Mutant: only a candidate above 0.9 counts as strong
FuzzyStageRuns_OnlyExactIsStrong(matches, enableFuzzySearch) ==
  enableFuzzySearch /\ \A k \in 1..Len(matches) : ~RLt(Rat(9, 10), matches[k].confidence)

\* enableFuzzySearch && matches.filter(m => m.confidence > 0.7).length === 0
FuzzyStageRuns(matches, enableFuzzySearch) ==
  enableFuzzySearch /\ \A k \in 1..Len(matches) : ~RLt(Rat(7, 10), matches[k].confidence)

\* ------------------------------------------------------------------------
\* Entity resolver: context re-ranking, deduplication, result
\* ------------------------------------------------------------------------

\* userPreferences is a function from the api names it has a record for to
\* [count, successRate, daysSinceLastUse]; successRate is a rational and
\* daysSinceLastUse stands for (Date.now() - lastUsed) / 86400000.
HasPref(userPreferences, apiName) == apiName \in DOMAIN userPreferences

genericTerms == <<"item", "product", "inventory", "order", "customer", "location">>

B2I(b) == IF b THEN 1 ELSE 0

\* The part of contextBoost that does not come from the preference history,
\* in hundredths
ContextHundredths(match, questionLower, orgProfile) ==
  LET api == match.apiName
      apiLower == ToLowerCase(api)
      q(w) == Includes(questionLower, w)
      standard ==
        IF match.custom THEN 0
        ELSE 20 * ( B2I(q("customer") /\ api = "Account")
                  + B2I(q("person") /\ api = "Contact")
                  + B2I(q("deal") /\ api = "Opportunity")
                  + B2I(q("case") /\ api = "Case")
                  + B2I(q("lead") /\ api = "Lead") )
      frequent == 15 * B2I(SeqIncludes(orgProfile.frequentObjects, api))
      inventory ==
        25 * B2I( (q("inventory") \/ q("stock"))
                  /\ (Includes(apiLower, "item") \/ Includes(apiLower, "product")) )
      location ==
        25 * B2I( (q("location") \/ q("warehouse"))
                  /\ (Includes(apiLower, "location") \/ Includes(apiLower, "warehouse")) )
      generic ==
        80 * Cardinality({t \in 1..Len(genericTerms) :
                            q(genericTerms[t]) /\ Includes(apiLower, genericTerms[t])})
      namespaced ==
        IF match.custom /\ Includes(api, "__")
        THEN generic
             + 30 * B2I(StartsWith(api, "owsc__"))
             + 200 * B2I( (q("object item") \/ q("found in") \/ q("located in"))
                          /\ Includes(apiLower, "item") )
             + 300 * B2I( (q(" items") \/ q("items ") \/ q("item "))
                          /\ api = "owsc__Item__c" )
        ELSE 0
      penalty ==
        200 * B2I(isProblematicSystemObject(api)) + 50 * B2I(isSystemObject(api))
      business == 5 * B2I(match.custom /\ (q("business") \/ q("custom")))
  IN standard + frequent + inventory + location + namespaced - penalty + business

\* usageBoost + successBoost + recencyBoost of one preference record
PreferenceBoost(pref) ==
  RAdd(Rat(IntMin(30, 2 * pref.count) + IntMax(0, 10 - pref.daysSinceLastUse), 100),
       Rat(pref.successRate.n, 5 * pref.successRate.d))

contextBoost(match, questionLower, orgProfile, userPreferences) ==
  LET base == Rat(ContextHundredths(match, questionLower, orgProfile), 100)
  IN IF HasPref(userPreferences, match.apiName)
     THEN RAdd(base, PreferenceBoost(userPreferences[match.apiName]))
     ELSE base

\* confidence: Math.min(1.0, match.confidence + contextBoost)
RankedConfidence(confidence, boost) == RMin(ROne, RAdd(confidence, boost))

RankOne(match, questionLower, orgProfile, userPreferences) ==
  LET boost == contextBoost(match, questionLower, orgProfile, userPreferences)
  IN [apiName |-> match.apiName, label |-> match.label,
      labelPlural |-> match.labelPlural, custom |-> match.custom,
      matchedBy |-> match.matchedBy, matchType |-> match.matchType,
      keyword |-> match.keyword,
      confidence |-> RankedConfidence(match.confidence, boost),
      reasonBoosts |->
        [user |-> HasPref(userPreferences, match.apiName),
         context |-> RLt(Rat(1, 10), boost),
         org |-> SeqIncludes(orgProfile.frequentObjects, match.apiName)]]

RECURSIVE RankMap(_, _, _, _, _)
RankMap(matches, questionLower, orgProfile, userPreferences, k) ==
  IF k > Len(matches) THEN <<>>
  ELSE <<RankOne(matches[k], questionLower, orgProfile, userPreferences)>>
       \o RankMap(matches, questionLower, orgProfile, userPreferences, k + 1)

\* Mutant: the re-ranked list is not sorted again
RankOrder_Unsorted(ranked) == ranked

\* The order of the re-ranked list: .sort((a, b) => b.confidence - a.confidence)
RankOrder(ranked) == SortByConfidence(ranked)

rankByContextAndPreferences(matches, question, orgProfile, userPreferences) ==
  RankOrder(RankMap(matches, ToLowerCase(question), orgProfile, userPreferences, 1))

\* deduplicateMatches: the first match of every apiName, in order
RECURSIVE DedupFrom(_, _, _)
DedupFrom(matches, seen, k) ==
  IF k > Len(matches) THEN <<>>
  ELSE IF matches[k].apiName \in seen THEN DedupFrom(matches, seen, k + 1)
       ELSE <<matches[k]>> \o DedupFrom(matches, seen \cup {matches[k].apiName}, k + 1)

deduplicateMatches(matches) == DedupFrom(matches, {}, 1)

\* Array.prototype.slice(0, n)
Slice0(seq, n) == SubSeq(seq, 1, IntMin(Len(seq), IntMax(n, 0)))

\* Array.prototype.join
RECURSIVE JoinFrom(_, _, _)
JoinFrom(seq, sep, k) ==
  IF k > Len(seq) THEN ""
  ELSE (IF k = 1 THEN "" ELSE sep) \o seq[k] \o JoinFrom(seq, sep, k + 1)

Join(seq, sep) == JoinFrom(seq, sep, 1)

RECURSIVE SuggestionTexts(_, _)
SuggestionTexts(matches, k) ==
  IF k > Len(matches) THEN <<>>
  ELSE << "\"" \o (IF matches[k].label # "" THEN matches[k].label ELSE matches[k].apiName)
          \o "\" (" \o matches[k].apiName \o ")" >>
       \o SuggestionTexts(matches, k + 1)

\* buildClarificationMessage: <<>> is null, <<text>> a message
buildClarificationMessage(matches, keywords) ==
  IF Len(matches) = 0
  THEN << "I couldn't find any Salesforce objects matching \"" \o Join(keywords, ", ")
          \o "\". Try using standard names like \"Account\", \"Contact\", or \"Opportunity\", or provide the exact API name." >>
  ELSE IF Len(matches) = 1 THEN <<>>
  ELSE << "I found multiple objects matching your request. Did you mean: "
          \o Join(SuggestionTexts(Slice0(matches, 3), 1), ", ") \o "?" >>

\* Mutant: one suggestion is enough to ask
NeedsClarification_AnyCount(topMatches) ==
  Len(topMatches) > 0 /\ RLt(topMatches[1].confidence, Rat(9, 10))

\* topMatches.length > 1 && topMatches[0].confidence < 0.9
NeedsClarification(topMatches) ==
  Len(topMatches) > 1 /\ RLt(topMatches[1].confidence, Rat(9, 10))

\* The object returned by resolveObjectsIntelligently; primaryMatch is <<>>
\* for null and <<match>> otherwise
ResolutionResult(topMatches, keywords, userPreferences) ==
  [success |-> Len(topMatches) > 0,
   primaryMatch |-> Slice0(topMatches, 1),
   suggestions |-> topMatches,
   confidence |-> IF Len(topMatches) > 0 THEN topMatches[1].confidence ELSE RZero,
   needsClarification |-> NeedsClarification(topMatches),
   clarificationMessage |-> buildClarificationMessage(topMatches, keywords),
   usedPreferences |-> DOMAIN userPreferences # {}]

\* ------------------------------------------------------------------------
\* Schema index
\* ------------------------------------------------------------------------

\* A Map is a sequence of [key, value] pairs with distinct keys, in
\* insertion order.
MapHas(map, key) == \E i \in 1..Len(map) : map[i].key = key

MapGet(map, key) == map[CHOOSE i \in 1..Len(map) : map[i].key = key].value

\* Map.prototype.set: a present key keeps its place and takes the new value
MapSet(map, key, value) ==
  IF MapHas(map, key)
  THEN [i \in 1..Len(map) |->
          IF map[i].key = key THEN [key |-> key, value |-> value] ELSE map[i]]
  ELSE Append(map, [key |-> key, value |-> value])

\* A field of a describe payload; relationshipName is "" and referenceTo is
\* <<>> on a field that is no lookup
Field(name, label, filterable, updateable, permissionable, relationshipName, referenceTo) ==
  [name |-> name, label |-> label, createable |-> updateable, updateable |-> updateable,
   filterable |-> filterable, permissionable |-> permissionable,
   relationshipName |-> relationshipName, referenceTo |-> referenceTo]

\* The test that puts a field into the readable set
IsReadableField(f) ==
  /\ (f.createable \/ f.updateable \/ f.filterable \/ f.name # "")
  /\ (f.filterable \/ f.name = "Id" \/ f.name = "Name" \/ f.permissionable \/ f.updateable)

RECURSIVE FieldMapFrom(_, _, _)
FieldMapFrom(map, fields, k) ==
  IF k > Len(fields) THEN map
  ELSE FieldMapFrom(MapSet(map, fields[k].name, fields[k]), fields, k + 1)

\* relationshipName and, unless the name ends in __r, relationshipName__r,
\* both to the first referenced object
RECURSIVE RelationshipsFrom(_, _, _)
RelationshipsFrom(map, fields, k) ==
  IF k > Len(fields) THEN map
  ELSE LET f == fields[k]
           one == MapSet(map, f.relationshipName, f.referenceTo[1])
       IN RelationshipsFrom(
            IF f.relationshipName # "" /\ Len(f.referenceTo) > 0
            THEN IF EndsWith(f.relationshipName, "__r") THEN one
                 ELSE MapSet(one, f.relationshipName \o "__r", f.referenceTo[1])
            ELSE map,
            fields, k + 1)

RECURSIVE ChildRelationshipsFrom(_, _, _)
ChildRelationshipsFrom(map, crs, k) ==
  IF k > Len(crs) THEN map
  ELSE ChildRelationshipsFrom(
         IF crs[k].relationshipName # "" /\ crs[k].childSObject # ""
         THEN MapSet(map, crs[k].relationshipName, crs[k].childSObject)
         ELSE map,
         crs, k + 1)

\* The entry written at the end of the try block; describe is <<d>>
EntryFromDescribe(d) ==
  [describe |-> <<d>>,
   fieldMap |-> FieldMapFrom(<<>>, d.fields, 1),
   readable |-> {d.fields[k].name : k \in {i \in 1..Len(d.fields) : IsReadableField(d.fields[i])}},
   relationships |-> RelationshipsFrom(<<>>, d.fields, 1),
   childRelationships |-> ChildRelationshipsFrom(<<>>, d.childRelationships, 1)]

\* The entry written by the catch block; describe is <<>> for undefined
EmptyEntry ==
  [describe |-> <<>>, fieldMap |-> <<>>, readable |-> {},
   relationships |-> <<>>, childRelationships |-> <<>>]

\* Array.from(new Set(objects.filter(Boolean)))
RECURSIVE UniqueFrom(_, _, _)
UniqueFrom(objects, seen, k) ==
  IF k > Len(objects) THEN <<>>
  ELSE IF objects[k] = "" \/ objects[k] \in seen THEN UniqueFrom(objects, seen, k + 1)
       ELSE <<objects[k]>> \o UniqueFrom(objects, seen \cup {objects[k]}, k + 1)

UniqueObjects(objects) == UniqueFrom(objects, {}, 1)

\* index.objects[objectApiName] = entry
IndexPut(index, objectApiName, entry) ==
  [n \in DOMAIN index \cup {objectApiName} |->
     IF n = objectApiName THEN entry ELSE index[n]]

\* Mutant: no catch around the describe, the rejection leaves the function
OnDescribeFailure_Abort(index, objectApiName) ==
  [threw |-> TRUE, index |-> index]

\* The catch block of the loop body: the object gets the empty entry and the
\* loop goes on; threw tells whether an exception leaves buildDescribeIndex
OnDescribeFailure(index, objectApiName) ==
  [threw |-> FALSE, index |-> IndexPut(index, objectApiName, EmptyEntry)]

\* ------------------------------------------------------------------------
\* Describe cache
\* ------------------------------------------------------------------------

DEFAULT_TTL_MS == 600000

\* Mutant: get answers with an entry whatever its expiresAt
DescribeCacheGet_NoExpiry(cache, orgId, objectApiName, now) ==
  LET key == <<orgId, objectApiName>>
  IN IF key \notin DOMAIN cache THEN [value |-> <<>>, cache |-> cache]
     ELSE [value |-> <<cache[key].value>>, cache |-> cache]

\* The cache is a function from the <<orgId, objectApiName>> pairs it holds
\* to [value, expiresAt].
\* DescribeCache.get at time now: the value as <<d>>, or <<>> for undefined,
\* and the cache it leaves (an expired entry is deleted)
DescribeCacheGet(cache, orgId, objectApiName, now) ==
  LET key == <<orgId, objectApiName>>
  IN IF key \notin DOMAIN cache THEN [value |-> <<>>, cache |-> cache]
     ELSE IF now > cache[key].expiresAt
          THEN [value |-> <<>>, cache |-> [k \in DOMAIN cache \ {key} |-> cache[k]]]
          ELSE [value |-> <<cache[key].value>>, cache |-> cache]

\* Mutant: set starts a new map for the org
DescribeCacheSet_FreshOrgMap(cache, orgId, objectApiName, describe, now) ==
  [k \in {c \in DOMAIN cache : c[1] # orgId} \cup {<<orgId, objectApiName>>} |->
     IF k = <<orgId, objectApiName>>
     THEN [value |-> describe, expiresAt |-> now + DEFAULT_TTL_MS]
     ELSE cache[k]]

\* DescribeCache.set at time now, with the default TTL
DescribeCacheSet(cache, orgId, objectApiName, describe, now) ==
  [k \in DOMAIN cache \cup {<<orgId, objectApiName>>} |->
     IF k = <<orgId, objectApiName>>
     THEN [value |-> describe, expiresAt |-> now + DEFAULT_TTL_MS]
     ELSE cache[k]]

\* ------------------------------------------------------------------------
\* Field selector
\* ------------------------------------------------------------------------

\* String.prototype.split('.')
RECURSIVE SplitFrom(_, _, _)
SplitFrom(s, i, cur) ==
  IF i > Len(s) THEN <<cur>>
  ELSE IF CharAt(s, i) = "." THEN <<cur>> \o SplitFrom(s, i + 1, "")
       ELSE SplitFrom(s, i + 1, cur \o CharAt(s, i))

SplitDots(s) == SplitFrom(s, 1, "")

\* const [rel, leaf] = fieldName.split('.'): the first two segments
RelOf(fieldName) == SplitDots(fieldName)[1]
LeafOf(fieldName) == SplitDots(fieldName)[2]

\* index is a function from the indexed object names to their entries
isFieldAllowed(index, objectApiName, fieldName) ==
  IF objectApiName \notin DOMAIN index THEN FALSE
  ELSE LET obj == index[objectApiName]
       IN IF Includes(fieldName, ".")
          THEN IF LeafOf(fieldName) # "Name" THEN FALSE
               ELSE \/ MapHas(obj.relationships, RelOf(fieldName))
                    \/ MapHas(obj.relationships, RelOf(fieldName) \o "__r")
          ELSE fieldName \in obj.readable \/ fieldName = "Id" \/ fieldName = "Name"

\* Mutant: the requested fields are passed through
filterAllowedFields_Unfiltered(index, objectApiName, fields) == fields

\* fields.filter(f => isFieldAllowed(index, objectApiName, f))
filterAllowedFields(index, objectApiName, fields) ==
  SelectSeq(fields, LAMBDA f : isFieldAllowed(index, objectApiName, f))

\* ------------------------------------------------------------------------
\* pickGroupByLookup
\* ------------------------------------------------------------------------

stop ==
  {"the", "a", "an", "by", "of", "in", "on", "for", "to", "and", "or", "id", "last",
   "month", "months", "this", "that", "these", "those", "with", "items", "item",
   "summarize", "summary", "count", "total", "avg", "average", "group"}

\* raw.filter(k => k && !stop.has(k)) of the lowercased keywords
lowerKeywords(keywordList) ==
  SelectSeq(MapLower(keywordList, 1), LAMBDA k : k # "" /\ k \notin stop)

\* The test of the loop's first continue, negated
IsLookupField(f) == f.relationshipName # "" /\ Len(f.referenceTo) > 0

\* Mutant: no lookup is skipped as administrative
IsAdministrativeLookup_Never(name) == FALSE

\* /^(OwnerId|CreatedById|LastModifiedById|RecordTypeId)$/i.test(f.name)
IsAdministrativeLookup(name) ==
  ToLowerCase(name) \in {"ownerid", "createdbyid", "lastmodifiedbyid", "recordtypeid"}

\* hay of a field
GroupHay(f) ==
  ToLowerCase(f.name \o " " \o f.label \o " " \o f.relationshipName \o " "
              \o Join(MapLower(f.referenceTo, 1), " "))

\* new RegExp(`\\b${kw}\\b`).test(hay) for a keyword of word characters
WordBoundaryMatch(hay, kw) ==
  \E i \in 0..(Len(hay) - Len(kw)) :
    /\ SubSeq(hay, i + 1, i + Len(kw)) = kw
    /\ (i = 0 \/ CharAt(hay, i) \notin WordChars)
    /\ (i + Len(kw) = Len(hay) \/ CharAt(hay, i + Len(kw) + 1) \notin WordChars)

\* The two keyword loops of one field: +3 contained, +4 as a whole word, +2
\* equal to a target API name
RECURSIVE KeywordScore(_, _, _, _)
KeywordScore(hay, targetApis, kws, k) ==
  IF k > Len(kws) THEN 0
  ELSE 3 * B2I(Includes(hay, kws[k])) + 4 * B2I(WordBoundaryMatch(hay, kws[k]))
       + 2 * B2I(SeqIncludes(targetApis, kws[k]))
       + KeywordScore(hay, targetApis, kws, k + 1)

\* score of a field in twentieths: the keyword score and 0.05 for every
\* character the name is shorter than 12
LookupScore(f, kws) ==
  20 * KeywordScore(GroupHay(f), MapLower(f.referenceTo, 1), kws, 1)
  + IntMax(0, 12 - Len(f.name))

\* Mutant: a later field of equal score replaces the best one
ScoreBeats_OrEqual(score, bestScore) == score >= bestScore

\* score > bestScore
ScoreBeats(score, bestScore) == score > bestScore

\* The loop over obj.describe.fields; best is <<>> or <<f>>, bestScore in
\* twentieths
RECURSIVE PickLoop(_, _, _, _, _)
PickLoop(fields, kws, k, best, bestScore) ==
  IF k > Len(fields) THEN [best |-> best, bestScore |-> bestScore]
  ELSE LET f == fields[k]
       IN IF ~IsLookupField(f) \/ IsAdministrativeLookup(f.name)
          THEN PickLoop(fields, kws, k + 1, best, bestScore)
          ELSE IF ScoreBeats(LookupScore(f, kws), bestScore)
               THEN PickLoop(fields, kws, k + 1, <<f>>, LookupScore(f, kws))
               ELSE PickLoop(fields, kws, k + 1, best, bestScore)

\* pickGroupByLookup: <<[groupField, displayField]>>, or <<>> for undefined
pickGroupByLookup(idx, objectApiName, keywordList) ==
  IF objectApiName \notin DOMAIN idx THEN <<>>
  ELSE IF idx[objectApiName].describe = <<>> THEN <<>>
  ELSE LET picked == PickLoop(idx[objectApiName].describe[1].fields,
                              lowerKeywords(keywordList), 1, <<>>, -20)
       IN IF picked.best = <<>> \/ picked.bestScore <= 0 THEN <<>>
          ELSE IF ~isFieldAllowed(idx, objectApiName, picked.best[1].name) THEN <<>>
          ELSE << [groupField |-> picked.best[1].name,
                   displayField |-> picked.best[1].relationshipName \o ".Name"] >>

\* ------------------------------------------------------------------------
\* Relationship planner
\* ------------------------------------------------------------------------

maxDepth == 3

\* Mutant: the visited set is never consulted
AlreadyVisited_Never(visitedSet, objectApiName) == FALSE

\* visited.has(objectApiName)
AlreadyVisited(visitedSet, objectApiName) == objectApiName \in visitedSet

\* Mutant: dfs prunes nothing
DfsPrunes_Never(objectApiName) == FALSE

\* The pruning test of dfs
DfsPrunes(objectApiName) == isProblematicSystemObject(objectApiName)

RECURSIVE MapValues(_, _)
MapValues(map, k) ==
  IF k > Len(map) THEN <<>> ELSE <<map[k].value>> \o MapValues(map, k + 1)

\* The score of a visited object, in tenths: 10 per keyword found in its own
\* name and labels, 8 per keyword found among its neighbours' names
NodeScore(objectApiName, obj, targetKeywords) ==
  LET label == IF obj.describe = <<>> THEN "" ELSE obj.describe[1].label
      labelPlural == IF obj.describe = <<>> THEN "" ELSE obj.describe[1].labelPlural
      hay == ToLowerCase(objectApiName \o " " \o label \o " " \o labelPlural)
      neighborText ==
        ToLowerCase(Join(MapValues(obj.relationships, 1)
                         \o MapValues(obj.childRelationships, 1), " "))
      lowered == MapLower(targetKeywords, 1)
  IN 10 * Cardinality({k \in 1..Len(lowered) : lowered[k] # "" /\ Includes(hay, lowered[k])})
     + 8 * Cardinality({k \in 1..Len(lowered) :
                          lowered[k] # "" /\ Includes(neighborText, lowered[k])})

Frame(objectApiName, path, depth) ==
  [objectApiName |-> objectApiName, path |-> path, depth |-> depth]

Hop(type, relName, to) == [type |-> type, relName |-> relName, to |-> to]

\* Mutant: the recursive calls pass depth instead of depth + 1
RECURSIVE ChildFrames_SameDepth(_, _, _, _, _)
ChildFrames_SameDepth(map, type, path, depth, k) ==
  IF k > Len(map) THEN <<>>
  ELSE << Frame(map[k].value, Append(path, Hop(type, map[k].key, map[k].value)), depth) >>
       \o ChildFrames_SameDepth(map, type, path, depth, k + 1)

\* The recursive calls of one dfs activation, in call order
RECURSIVE ChildFrames(_, _, _, _, _)
ChildFrames(map, type, path, depth, k) ==
  IF k > Len(map) THEN <<>>
  ELSE << Frame(map[k].value, Append(path, Hop(type, map[k].key, map[k].value)), depth + 1) >>
       \o ChildFrames(map, type, path, depth, k + 1)

\* Mutant: the comparator orders by depth only
\* Mutant: among equal scores the deepest object comes first
ResultBefore_DeepestFirst(a, b) == a.score > b.score \/ (a.score = b.score /\ a.depth > b.depth)

ResultBefore_DepthOnly(a, b) == a.depth < b.depth

\* results.sort((a, b) => b.score - a.score || a.depth - b.depth): stable
ResultBefore(a, b) == a.score > b.score \/ (a.score = b.score /\ a.depth < b.depth)

RECURSIVE InsertResult(_, _, _)
InsertResult(sorted, r, k) ==
  IF k > Len(sorted) THEN Append(sorted, r)
  ELSE IF ResultBefore(r, sorted[k])
       THEN SubSeq(sorted, 1, k - 1) \o <<r>> \o SubSeq(sorted, k, Len(sorted))
       ELSE InsertResult(sorted, r, k + 1)

RECURSIVE SortResultsFrom(_, _, _)
SortResultsFrom(sorted, rs, k) ==
  IF k > Len(rs) THEN sorted
  ELSE SortResultsFrom(InsertResult(sorted, rs[k], 1), rs, k + 1)

SortResults(rs) == SortResultsFrom(<<>>, rs, 1)

\* ------------------------------------------------------------------------
\* Describe payloads the schema indexes are built from
\* ------------------------------------------------------------------------

ParentEdge(from, field, label, relName, to) ==
  [kind |-> "parent", from |-> from, field |-> field, label |-> label,
   relName |-> relName, to |-> to]

ChildEdge(from, relName, to) ==
  [kind |-> "child", from |-> from, field |-> "", label |-> "",
   relName |-> relName, to |-> to]

\* The relationships an organisation's schema is drawn from
EdgePool ==
  << ChildEdge("Account", "Contacts", "Contact"),
     ParentEdge("Contact", "AccountId", "Account ID", "Account", "Account"),
     ParentEdge("Contact", "ReportsToId", "Reports To ID", "ReportsTo", "Contact"),
     ChildEdge("Contact", "Cases", "Case"),
     ChildEdge("Case", "Lots__r", "Lot__c"),
     ParentEdge("Lot__c", "Location__c", "Location", "Location__r", "Location__c"),
     ChildEdge("Account", "ProcessInstances", "ProcessInstance"),
     ChildEdge("ProcessInstance", "Lots__r", "Lot__c"),
     ParentEdge("Account", "OwnerId", "Owner ID", "Owner", "User"),
     ChildEdge("Account", "Lots__r", "Lot__c") >>

\* The largest number of relationships in a drawn schema
MaxEdges == 4

EdgeSets == {c \in SUBSET (1..Len(EdgePool)) : Cardinality(c) <= MaxEdges}

\* The objects the describer knows; User is never described
DescribedObjects ==
  {"Account", "Contact", "Case", "Lot__c", "Location__c", "ProcessInstance"}

SchemaObjects == DescribedObjects \cup {"User"}

LabelOf(name) ==
  CASE name = "Account" -> "Account"
    [] name = "Contact" -> "Contact"
    [] name = "Case" -> "Case"
    [] name = "Lot__c" -> "Lot"
    [] name = "Location__c" -> "Location"
    [] name = "ProcessInstance" -> "Process Instance"
    [] OTHER -> name

BaseFields(name) ==
  << Field("Id", "Record ID", TRUE, FALSE, FALSE, "", <<>>),
     Field("Name", "Name", TRUE, TRUE, FALSE, "", <<>>),
     Field("CreatedDate", "Created Date", TRUE, FALSE, FALSE, "", <<>>),
     Field("Secret__c", "Secret", FALSE, FALSE, FALSE, "", <<>>) >>

RECURSIVE LookupFields(_, _, _)
LookupFields(name, chosen, i) ==
  IF i > Len(EdgePool) THEN <<>>
  ELSE (IF i \in chosen /\ EdgePool[i].kind = "parent" /\ EdgePool[i].from = name
        THEN << Field(EdgePool[i].field, EdgePool[i].label, TRUE, TRUE, FALSE,
                      EdgePool[i].relName, <<EdgePool[i].to>>) >>
        ELSE <<>>)
       \o LookupFields(name, chosen, i + 1)

RECURSIVE ChildRelationshipsOf(_, _, _)
ChildRelationshipsOf(name, chosen, i) ==
  IF i > Len(EdgePool) THEN <<>>
  ELSE (IF i \in chosen /\ EdgePool[i].kind = "child" /\ EdgePool[i].from = name
        THEN << [relationshipName |-> EdgePool[i].relName, childSObject |-> EdgePool[i].to] >>
        ELSE <<>>)
       \o ChildRelationshipsOf(name, chosen, i + 1)

\* What describeSObject(name) resolves with in the schema of the chosen edges
DescribeOf(name, chosen) ==
  [name |-> name, label |-> LabelOf(name), labelPlural |-> LabelOf(name) \o "s",
   fields |-> BaseFields(name) \o LookupFields(name, chosen, 1),
   childRelationships |-> ChildRelationshipsOf(name, chosen, 1)]

\* The index buildDescribeIndex leaves for the described objects when every
\* describe succeeds
FullIndex(chosen) == [name \in DescribedObjects |-> EntryFromDescribe(DescribeOf(name, chosen))]

\* ------------------------------------------------------------------------
\* Inputs of the resolver
\* ------------------------------------------------------------------------

SObject(name, label, labelPlural, custom) ==
  [name |-> name, label |-> label, labelPlural |-> labelPlural, custom |-> custom]

\* The objects a lister answer is drawn from
ObjectPool ==
  << SObject("Account", "Account", "Accounts", FALSE),
     SObject("demo__Item__c", "Item", "", TRUE),
     SObject("FlowOrchestrationWorkItem", "Flow Orchestration Work Item",
             "Flow Orchestration Work Items", FALSE),
     SObject("Site", "Site", "Sites", FALSE),
     SObject("Case", "Case", "Cases", FALSE),
     SObject("Contact", "Contact", "Contacts", FALSE) >>

\* The largest number of objects in a lister answer
MaxObjects == 3

RECURSIVE PickFrom(_, _, _)
PickFrom(pool, chosen, i) ==
  IF i > Len(pool) THEN <<>>
  ELSE (IF i \in chosen THEN <<pool[i]>> ELSE <<>>) \o PickFrom(pool, chosen, i + 1)

\* listSObjects() either rejects or resolves with a list of objects
ListerOutcomes ==
  { [ok |-> FALSE, sobjects |-> <<>>] }
  \cup { [ok |-> TRUE, sobjects |-> PickFrom(ObjectPool, chosen, 1)] :
           chosen \in {c \in SUBSET (1..Len(ObjectPool)) : Cardinality(c) <= MaxObjects} }

Questions ==
  { "show me items", "show me custmers", "show me cases", "customer accounts",
    "list demo__Item__c records" }

OrgProfiles ==
  { [frequentObjects |-> <<>>, objectSynonyms |-> <<>>],
    [frequentObjects |-> <<"Account">>,
     objectSynonyms |-> <<[apiName |-> "Account", synonyms |-> <<"custmers">>]>>] }

Pref(count, successRate, daysSinceLastUse) ==
  [count |-> count, successRate |-> successRate, daysSinceLastUse |-> daysSinceLastUse]

\* Preference histories as SessionStore.trackObjectUsage leaves them:
\* count >= 1 and successRate = successes / count
PreferenceHistories ==
  { <<>>,
    [n \in {"Account", "Site"} |->
       IF n = "Account" THEN Pref(3, Rat(2, 3), 2) ELSE Pref(1, Rat(0, 1), 20)] }

Thresholds == {Rat(3, 10), Rat(6, 10)}
SuggestionLimits == {1, 5}

ResolveOptions ==
  [threshold : Thresholds, maxSuggestions : SuggestionLimits,
   includeSystemObjects : BOOLEAN, enableFuzzySearch : BOOLEAN]

\* ------------------------------------------------------------------------
\* State
\* ------------------------------------------------------------------------

VARIABLES
  sf,               \* the lister's outcome for this call
  question,         \* arguments of resolveObjectsIntelligently
  orgProfile,
  userPreferences,
  options,
  pc,               \* position in resolveObjectsIntelligently
  catalog,          \* Step 1
  keywords,         \* Step 2
  matches,          \* Step 3, stages 1-3
  rankedMatches,    \* Stage 4
  result            \* the returned ResolutionResult, <<>> before the return

resolverVars ==
  <<sf, question, orgProfile, userPreferences, options, pc, catalog, keywords,
    matches, rankedMatches, result>>

VARIABLES
  schemaEdges,      \* the relationships of the schema the index was built from
  describeIndex,    \* arguments of planRelationshipPath
  startObject,
  targetKeywords,
  planPc,           \* position in planRelationshipPath
  visited,          \* the Set visited
  results,          \* the array results
  stack,            \* the pending dfs calls, the next one first
  planResult        \* the returned value: <<>> for undefined, else <<results[0]>>

plannerVars ==
  <<schemaEdges, describeIndex, startObject, targetKeywords, planPc, visited,
    results, stack, planResult>>

VARIABLES
  fieldIndex,       \* arguments of isFieldAllowed / filterAllowedFields
  fieldObject,
  fieldPc,          \* "idle", then "checked" or "filtered"
  fieldName,        \* the argument of the isFieldAllowed call
  fieldAllowed,     \* its result
  requestedFields,  \* the argument of the filterAllowedFields call
  filteredFields    \* its result

fieldVars ==
  <<fieldIndex, fieldObject, fieldPc, fieldName, fieldAllowed, requestedFields,
    filteredFields>>

VARIABLES
  ixObjects,        \* arguments of buildDescribeIndex: objects, orgId ("" when absent)
  ixOrgId,
  ixFailing,        \* the objects whose describeSObject call rejects
  ixPc,             \* position in buildDescribeIndex
  ixUnique,         \* the array unique
  ixPos,            \* the position of the for loop in unique
  index,            \* index.objects
  ixSource,         \* per handled object: "cache", "remote" or "failed"
  describeCache,    \* orgToObjectDescribe
  now               \* Date.now()

indexVars ==
  <<ixObjects, ixOrgId, ixFailing, ixPc, ixUnique, ixPos, index, ixSource,
    describeCache, now>>

VARIABLES
  exIndex,          \* the index expandDescribeIndex works on (mutated in place)
  exInitial,        \* the index as it was passed in
  exStart,          \* arguments startObject and maxDepth
  exMaxDepth,
  exPc,             \* position in expandDescribeIndex
  exVisited,        \* the set visited
  exFrontier,       \* the array frontier
  exNext,           \* the set next of the current round, in insertion order
  exDepth           \* the loop variable depth

expandVars ==
  <<exIndex, exInitial, exStart, exMaxDepth, exPc, exVisited, exFrontier,
    exNext, exDepth>>

VARIABLES
  mem,              \* SessionStore: id -> [data, expiresAt]
  sessionNow,       \* Date.now() as the session routes see it
  rqPc,             \* position of the /generate or /generate/stream handler
  rqRoute,          \* "generate" or "stream"
  rqSession,        \* sessionId and user_question of the request
  rqQuestion,
  rqUseSOSL,        \* shouldUseSOSL(user_question, intent) of the request
  rqResolved,       \* entities[0] / resolution.primaryMatch.apiName, "" when none
  rqResolverCalled, \* resolveObjectsIntelligently was called for the request
  rqCount,          \* requests and clarification answers handled so far
  clCount,
  remembered,       \* history: the answers stored in the current life of each session
  liveUntil,        \* history: when each session expires
  rqExpected        \* history: the remembered answer at the request's lookup, if any

sessionVars ==
  <<mem, sessionNow, rqPc, rqRoute, rqSession, rqQuestion, rqUseSOSL, rqResolved,
    rqResolverCalled, rqCount, clCount, remembered, liveUntil, rqExpected>>

VARIABLES
  gbIndex,          \* arguments of pickGroupByLookup: index, objectApiName, keywords
  gbObject,
  gbKeywords,
  gbPc,             \* "idle", then "picked"; "off" outside that specification
  gbResult          \* <<[groupField, displayField]>>, or <<>> for undefined

groupVars == <<gbIndex, gbObject, gbKeywords, gbPc, gbResult>>

VARIABLES
  simStr1,          \* arguments of calculateSimilarity
  simStr2,
  simPc,            \* "idle", "forward", "both"; "off" outside that specification
  simForward,       \* calculateSimilarity(str1, str2)
  simBackward       \* calculateSimilarity(str2, str1)

simVars == <<simStr1, simStr2, simPc, simForward, simBackward>>

earlyVars ==
  <<resolverVars, plannerVars, fieldVars, indexVars, expandVars, sessionVars,
    groupVars, simVars>>

VARIABLES
  trMem,            \* the Map mem of the SessionStore under trackObjectUsage
  trNow,            \* Date.now()
  trLog,            \* history: the calls of trackObjectUsage so far, oldest first
  trCount,          \* the calls made since the initial state
  trPc              \* "run"; "off" outside that specification

trackVars == <<trMem, trNow, trLog, trCount, trPc>>

VARIABLES
  rtRetries,        \* the options of withRetry: retries, shouldRetry
  rtPolicy,
  rtAttempt,        \* let attempt
  rtLastError,      \* let lastError, <<>> for undefined
  rtWait,           \* the wait of the current sleep
  rtCalls,          \* history: the outcomes of the calls of taskFn, oldest first
  rtSettled,        \* <<>>, or <<value>> / <<error>> the promise settled with
  rtPc              \* "try", "wait", "resolved", "rejected"; "off" outside

retryVars ==
  <<rtRetries, rtPolicy, rtAttempt, rtLastError, rtWait, rtCalls, rtSettled, rtPc>>

VARIABLES
  levA,             \* three strings
  levB,
  levC,
  levAB,            \* levenshteinDistance(levA, levB), (levA, levC), (levC, levB)
  levAC,
  levCB,
  levPc             \* "idle", then "done"; "off" outside that specification

levVars == <<levA, levB, levC, levAB, levAC, levCB, levPc>>

VARIABLES
  gnTarget,         \* targetObject of the request
  gnBlocked,        \* orgProfile.guardrails.blockedObjects, allowedObjects
  gnAllowedList,
  gnNeedsDate,      \* needsDateClarification(user_question)
  gnTotal,          \* total of the pre-count
  gnSecurity,       \* <<>>, or <<securityCheck.allowed>> once validateQuerySecurity returned
  gnSent,           \* history: the SOQL queries sent with sf.query, oldest first
  gnResponse,       \* <<>>, or <<the response>>
  gnPc              \* position in the handler; "off" outside that specification

genVars ==
  <<gnTarget, gnBlocked, gnAllowedList, gnNeedsDate, gnTotal, gnSecurity, gnSent,
    gnResponse, gnPc>>

VARIABLES
  ccProc,           \* the concurrent calls: arguments, position, index so far
  ccCache,          \* the describe cache they share
  ccNow,            \* Date.now()
  ccFailing,        \* the objects whose describe is rejected
  ccWritten         \* history: per cache key, the time of its last write

concVars == <<ccProc, ccCache, ccNow, ccFailing, ccWritten>>

lateVars == <<trackVars, retryVars, levVars, genVars, concVars>>

OtherThanTrack == <<earlyVars, retryVars, levVars, genVars, concVars>>
OtherThanRetry == <<earlyVars, trackVars, levVars, genVars, concVars>>
OtherThanLev == <<earlyVars, trackVars, retryVars, genVars, concVars>>
OtherThanGen == <<earlyVars, trackVars, retryVars, levVars, concVars>>
OtherThanConc == <<earlyVars, trackVars, retryVars, levVars, genVars>>

vars ==
  <<resolverVars, plannerVars, fieldVars, indexVars, expandVars, sessionVars,
    groupVars, simVars, lateVars>>

ResolverInit ==
  /\ sf \in ListerOutcomes
  /\ question \in Questions
  /\ orgProfile \in OrgProfiles
  /\ userPreferences \in PreferenceHistories
  /\ options \in ResolveOptions
  /\ pc = "start"
  /\ catalog = <<>>
  /\ keywords = <<>>
  /\ matches = <<>>
  /\ rankedMatches = <<>>
  /\ result = <<>>

ResolverInputs == <<sf, question, orgProfile, userPreferences, options>>

\* Step 1: const catalog = await buildComprehensiveCatalog(sf, { includeSystemObjects });
\* an exception that left it would reject the promise of the resolver
BuildCatalog ==
  /\ pc = "start"
  /\ LET built == buildComprehensiveCatalog(sf, options.includeSystemObjects)
     IN /\ catalog' = built.catalog
        /\ pc' = IF built.threw THEN "raised" ELSE "catalog"
  /\ UNCHANGED <<ResolverInputs, keywords, matches, rankedMatches, result>>
  /\ UNCHANGED <<plannerVars, fieldVars, indexVars, expandVars, sessionVars, groupVars, simVars, lateVars>>

\* Step 2: const keywords = extractObjectKeywords(question, orgProfile)
ExtractKeywords ==
  /\ pc = "catalog"
  /\ keywords' = extractObjectKeywords(question, orgProfile)
  /\ pc' = "keywords"
  /\ UNCHANGED <<ResolverInputs, catalog, matches, rankedMatches, result>>
  /\ UNCHANGED <<plannerVars, fieldVars, indexVars, expandVars, sessionVars, groupVars, simVars, lateVars>>

\* Stage 1: exact matches
ExactStage ==
  /\ pc = "keywords"
  /\ matches' = ExactCandidates(keywords, catalog, 1)
  /\ pc' = "exact"
  /\ UNCHANGED <<ResolverInputs, catalog, keywords, rankedMatches, result>>
  /\ UNCHANGED <<plannerVars, fieldVars, indexVars, expandVars, sessionVars, groupVars, simVars, lateVars>>

\* Stage 2: partial matches
PartialStage ==
  /\ pc = "exact"
  /\ matches' = matches \o PartialCandidates(keywords, catalog, 1)
  /\ pc' = "partial"
  /\ UNCHANGED <<ResolverInputs, catalog, keywords, rankedMatches, result>>
  /\ UNCHANGED <<plannerVars, fieldVars, indexVars, expandVars, sessionVars, groupVars, simVars, lateVars>>

\* Stage 3: fuzzy matches, if enabled and no strong match so far
FuzzyStage ==
  /\ pc = "partial"
  /\ matches' =
       IF FuzzyStageRuns(matches, options.enableFuzzySearch)
       THEN matches \o FuzzyCandidates(keywords, catalog, options.threshold, 1)
       ELSE matches
  /\ pc' = "fuzzy"
  /\ UNCHANGED <<ResolverInputs, catalog, keywords, rankedMatches, result>>
  /\ UNCHANGED <<plannerVars, fieldVars, indexVars, expandVars, sessionVars, groupVars, simVars, lateVars>>

\* Stage 4: context-aware ranking with user preferences
RankStage ==
  /\ pc = "fuzzy"
  /\ rankedMatches' =
       rankByContextAndPreferences(matches, question, orgProfile, userPreferences)
  /\ pc' = "ranked"
  /\ UNCHANGED <<ResolverInputs, catalog, keywords, matches, result>>
  /\ UNCHANGED <<plannerVars, fieldVars, indexVars, expandVars, sessionVars, groupVars, simVars, lateVars>>

\* Stage 5 and the return: deduplicate, limit, build the result
Return ==
  /\ pc = "ranked"
  /\ result' =
       << ResolutionResult(Slice0(deduplicateMatches(rankedMatches), options.maxSuggestions),
                           keywords, userPreferences) >>
  /\ pc' = "done"
  /\ UNCHANGED <<ResolverInputs, catalog, keywords, matches, rankedMatches>>
  /\ UNCHANGED <<plannerVars, fieldVars, indexVars, expandVars, sessionVars, groupVars, simVars, lateVars>>

ResolverNext ==
  \/ BuildCatalog
  \/ ExtractKeywords
  \/ ExactStage
  \/ PartialStage
  \/ FuzzyStage
  \/ RankStage
  \/ Return

ResolverIdle ==
  /\ sf = [ok |-> FALSE, sobjects |-> <<>>]
  /\ question = ""
  /\ orgProfile = [frequentObjects |-> <<>>, objectSynonyms |-> <<>>]
  /\ userPreferences = <<>>
  /\ options = [threshold |-> Rat(6, 10), maxSuggestions |-> 5,
                includeSystemObjects |-> FALSE, enableFuzzySearch |-> TRUE]
  /\ pc = "idle"
  /\ catalog = <<>>
  /\ keywords = <<>>
  /\ matches = <<>>
  /\ rankedMatches = <<>>
  /\ result = <<>>

\* ------------------------------------------------------------------------
\* planRelationshipPath
\* ------------------------------------------------------------------------

KeywordLists == { <<>>, <<"lot">>, <<"Lot", "location">>, <<"contact", "">> }

PlannerInit ==
  /\ schemaEdges \in EdgeSets
  /\ describeIndex = FullIndex(schemaEdges)
  /\ startObject \in SchemaObjects
  /\ targetKeywords \in KeywordLists
  /\ planPc = "start"
  /\ visited = {}
  /\ results = <<>>
  /\ stack = <<>>
  /\ planResult = <<>>

PlannerIdle ==
  /\ schemaEdges = {}
  /\ describeIndex = <<>>
  /\ startObject = ""
  /\ targetKeywords = <<>>
  /\ planPc = "idle"
  /\ visited = {}
  /\ results = <<>>
  /\ stack = <<>>
  /\ planResult = <<>>

PlannerInputs == <<schemaEdges, describeIndex, startObject, targetKeywords>>

\* dfs(startObject, [], 0)
PlanStart ==
  /\ planPc = "start"
  /\ stack' = <<Frame(startObject, <<>>, 0)>>
  /\ planPc' = "dfs"
  /\ UNCHANGED <<PlannerInputs, visited, results, planResult>>
  /\ UNCHANGED <<resolverVars, fieldVars, indexVars, expandVars, sessionVars, groupVars, simVars, lateVars>>

\* One activation of dfs: the call at the head of the stack runs up to its
\* recursive calls, which take its place on the stack in call order
DfsCall ==
  /\ planPc = "dfs"
  /\ stack # <<>>
  /\ LET f == Head(stack)
         rest == Tail(stack)
     IN IF \/ f.depth > maxDepth
           \/ AlreadyVisited(visited, f.objectApiName)
           \/ DfsPrunes(f.objectApiName)
        THEN /\ stack' = rest
             /\ UNCHANGED <<visited, results>>
        ELSE /\ visited' = visited \cup {f.objectApiName}
             /\ IF f.objectApiName \notin DOMAIN describeIndex
                THEN /\ stack' = rest
                     /\ UNCHANGED results
                ELSE LET obj == describeIndex[f.objectApiName]
                     IN /\ results' =
                             Append(results,
                               [objectApiName |-> f.objectApiName, path |-> f.path,
                                score |-> NodeScore(f.objectApiName, obj, targetKeywords),
                                depth |-> f.depth])
                        /\ stack' =
                             ChildFrames(obj.relationships, "parent", f.path, f.depth, 1)
                             \o ChildFrames(obj.childRelationships, "child", f.path, f.depth, 1)
                             \o rest
  /\ UNCHANGED <<PlannerInputs, planPc, planResult>>
  /\ UNCHANGED <<resolverVars, fieldVars, indexVars, expandVars, sessionVars, groupVars, simVars, lateVars>>

\* results.sort(...); return results[0]
PlanReturn ==
  /\ planPc = "dfs"
  /\ stack = <<>>
  /\ planResult' = IF results = <<>> THEN <<>> ELSE <<SortResults(results)[1]>>
  /\ planPc' = "done"
  /\ UNCHANGED <<PlannerInputs, visited, results, stack>>
  /\ UNCHANGED <<resolverVars, fieldVars, indexVars, expandVars, sessionVars, groupVars, simVars, lateVars>>

PlannerNext ==
  \/ PlanStart
  \/ DfsCall
  \/ PlanReturn

\* ------------------------------------------------------------------------
\* isFieldAllowed and filterAllowedFields
\* ------------------------------------------------------------------------

FieldEdgeSets == { {}, {2, 3, 6, 9} }

FieldObjects == {"Account", "Contact", "Lot__c", "User"}

FieldNames ==
  { "Id", "Name", "CreatedDate", "Secret__c", "Missing__c",
    "Owner.Name", "Owner__r.Name", "Owner.Email", "Owner.Name.Secret__c",
    "Account.Owner.Name", "Location.Name", "Nope.Name" }

\* The longest requested field list
MaxFields == 2

FieldLists == UNION {[1..n -> FieldNames] : n \in 0..MaxFields}

FieldsInit ==
  /\ fieldIndex \in {FullIndex(c) : c \in FieldEdgeSets}
  /\ fieldObject \in FieldObjects
  /\ fieldPc = "idle"
  /\ fieldName = ""
  /\ fieldAllowed = FALSE
  /\ requestedFields = <<>>
  /\ filteredFields = <<>>

FieldsIdle ==
  /\ fieldIndex = <<>>
  /\ fieldObject = ""
  /\ fieldPc = "off"
  /\ fieldName = ""
  /\ fieldAllowed = FALSE
  /\ requestedFields = <<>>
  /\ filteredFields = <<>>

\* A call isFieldAllowed(index, objectApiName, fieldName)
CheckField ==
  /\ fieldPc = "idle"
  /\ \E f \in FieldNames :
       /\ fieldName' = f
       /\ fieldAllowed' = isFieldAllowed(fieldIndex, fieldObject, f)
  /\ fieldPc' = "checked"
  /\ UNCHANGED <<fieldIndex, fieldObject, requestedFields, filteredFields>>
  /\ UNCHANGED <<resolverVars, plannerVars, indexVars, expandVars, sessionVars, groupVars, simVars, lateVars>>

\* A call filterAllowedFields(index, objectApiName, fields)
FilterFields ==
  /\ fieldPc = "idle"
  /\ \E fs \in FieldLists :
       /\ requestedFields' = fs
       /\ filteredFields' = filterAllowedFields(fieldIndex, fieldObject, fs)
  /\ fieldPc' = "filtered"
  /\ UNCHANGED <<fieldIndex, fieldObject, fieldName, fieldAllowed>>
  /\ UNCHANGED <<resolverVars, plannerVars, indexVars, expandVars, sessionVars, groupVars, simVars, lateVars>>

FieldsNext ==
  \/ CheckField
  \/ FilterFields

\* ------------------------------------------------------------------------
\* buildDescribeIndex
\* ------------------------------------------------------------------------

\* The schema the describer answers from
IxEdges == 1..Len(EdgePool)

IxNames == {"", "Account", "Contact", "Lot__c"}

\* The longest list of requested objects
MaxRequested == 2

RequestLists == UNION {[1..n -> IxNames] : n \in 0..MaxRequested}

\* The time between two observations of the clock, and how many there are
ClockStep == (2 * DEFAULT_TTL_MS) \div 3
MaxTicks == 2

\* An entry written at time 0 by an earlier call, holding the payload the
\* object had before its relationships were added
InitialCaches ==
  { <<>>,
    [k \in {<<"org1", "Account">>} |->
       [value |-> DescribeOf("Account", {}), expiresAt |-> DEFAULT_TTL_MS]] }

IndexInit ==
  /\ ixObjects \in RequestLists
  /\ ixOrgId \in {"", "org1"}
  /\ ixFailing \in SUBSET (IxNames \ {""})
  /\ ixPc = "start"
  /\ ixUnique = <<>>
  /\ ixPos = 0
  /\ index = <<>>
  /\ ixSource = <<>>
  /\ describeCache \in InitialCaches
  /\ now = 0

IndexIdle ==
  /\ ixObjects = <<>>
  /\ ixOrgId = ""
  /\ ixFailing = {}
  /\ ixPc = "idle"
  /\ ixUnique = <<>>
  /\ ixPos = 0
  /\ index = <<>>
  /\ ixSource = <<>>
  /\ describeCache = <<>>
  /\ now = 0

IndexInputs == <<ixObjects, ixOrgId, ixFailing>>

\* const index = { objects: {} }; const unique = ...
IxStart ==
  /\ ixPc = "start"
  /\ ixUnique' = UniqueObjects(ixObjects)
  /\ ixPos' = 1
  /\ index' = <<>>
  /\ ixPc' = "loop"
  /\ UNCHANGED <<IndexInputs, ixSource, describeCache, now>>
  /\ UNCHANGED <<resolverVars, plannerVars, fieldVars, expandVars, sessionVars, groupVars, simVars, lateVars>>

\* The head of one loop body: the cache is consulted when an orgId is given;
\* a hit builds the entry, a miss awaits sf.describeSObject
IxLookup ==
  /\ ixPc = "loop"
  /\ ixPos <= Len(ixUnique)
  /\ LET name == ixUnique[ixPos]
         got == DescribeCacheGet(describeCache, ixOrgId, name, now)
     IN IF ixOrgId # "" /\ got.value # <<>>
        THEN /\ index' = IndexPut(index, name, EntryFromDescribe(got.value[1]))
             /\ ixSource' = IndexPut(ixSource, name, "cache")
             /\ describeCache' = got.cache
             /\ ixPos' = ixPos + 1
             /\ ixPc' = "loop"
        ELSE /\ describeCache' = IF ixOrgId # "" THEN got.cache ELSE describeCache
             /\ ixPc' = "describing"
             /\ UNCHANGED <<index, ixSource, ixPos>>
  /\ UNCHANGED <<IndexInputs, ixUnique, now>>
  /\ UNCHANGED <<resolverVars, plannerVars, fieldVars, expandVars, sessionVars, groupVars, simVars, lateVars>>

\* The awaited describe settles: resolved, the payload is cached (with an
\* orgId) and the entry built; rejected, the catch block runs
IxDescribeSettled ==
  /\ ixPc = "describing"
  /\ LET name == ixUnique[ixPos]
         failed == OnDescribeFailure(index, name)
         d == DescribeOf(name, IxEdges)
     IN IF name \in ixFailing
        THEN /\ index' = failed.index
             /\ ixSource' = IndexPut(ixSource, name, "failed")
             /\ ixPc' = IF failed.threw THEN "raised" ELSE "loop"
             /\ UNCHANGED describeCache
        ELSE /\ index' = IndexPut(index, name, EntryFromDescribe(d))
             /\ ixSource' = IndexPut(ixSource, name, "remote")
             /\ describeCache' =
                  IF ixOrgId # "" THEN DescribeCacheSet(describeCache, ixOrgId, name, d, now)
                  ELSE describeCache
             /\ ixPc' = "loop"
  /\ ixPos' = ixPos + 1
  /\ UNCHANGED <<IndexInputs, ixUnique, now>>
  /\ UNCHANGED <<resolverVars, plannerVars, fieldVars, expandVars, sessionVars, groupVars, simVars, lateVars>>

\* return index
IxReturn ==
  /\ ixPc = "loop"
  /\ ixPos > Len(ixUnique)
  /\ ixPc' = "done"
  /\ UNCHANGED <<IndexInputs, ixUnique, ixPos, index, ixSource, describeCache, now>>
  /\ UNCHANGED <<resolverVars, plannerVars, fieldVars, expandVars, sessionVars, groupVars, simVars, lateVars>>

\* Time passes while the call runs
Tick ==
  /\ ixPc \in {"start", "loop", "describing"}
  /\ now < MaxTicks * ClockStep
  /\ now' = now + ClockStep
  /\ UNCHANGED <<IndexInputs, ixPc, ixUnique, ixPos, index, ixSource, describeCache>>
  /\ UNCHANGED <<resolverVars, plannerVars, fieldVars, expandVars, sessionVars, groupVars, simVars, lateVars>>

IndexNext ==
  \/ IxStart
  \/ IxLookup
  \/ IxDescribeSettled
  \/ IxReturn
  \/ Tick

\* ------------------------------------------------------------------------
\* expandDescribeIndex
\* ------------------------------------------------------------------------

NonEmptyNames(names) == SelectSeq(names, LAMBDA n : n # "")

\* listNeighborApis: the parents, then the children, each once
listNeighborApis(idx, objectApiName) ==
  IF objectApiName \notin DOMAIN idx THEN <<>>
  ELSE LET obj == idx[objectApiName]
       IN SetAddAll(SetAddAll(<<>>, NonEmptyNames(MapValues(obj.relationships, 1)), 1),
                    NonEmptyNames(MapValues(obj.childRelationships, 1)), 1)

\* The set next of one round: the unvisited neighbours of the frontier
RECURSIVE NextFrontier(_, _, _, _, _)
NextFrontier(idx, frontier, visitedSet, next, k) ==
  IF k > Len(frontier) THEN next
  ELSE NextFrontier(idx, frontier, visitedSet,
         SetAddAll(next,
                   SelectSeq(listNeighborApis(idx, frontier[k]),
                             LAMBDA n : n \notin visitedSet), 1),
         k + 1)

\* Array.from(next).filter(api => !index.objects[api])
ToDescribe(idx, next) == SelectSeq(next, LAMBDA api : api \notin DOMAIN idx)

\* Mutant: the expanded index is the neighbour index alone
MergeNeighborIndex_Replace(idx, neighborIndex) == neighborIndex

\* for (const [api, entry] of Object.entries(neighborIndex.objects))
\*   index.objects[api] = entry
MergeNeighborIndex(idx, neighborIndex) ==
  [n \in DOMAIN idx \cup DOMAIN neighborIndex |->
     IF n \in DOMAIN neighborIndex THEN neighborIndex[n] ELSE idx[n]]

\* The largest maxDepth argument
MaxExpandDepth == 2

ExpandStarts == {"Account", "Contact", "Case"}

\* The objects whose describe may fail during an expansion
ExpandFailing == {"Contact", "Lot__c", "User"}

\* The index buildDescribeIndex returns for the names when every describe
\* succeeds
DescribedIndex(names) == [n \in names |-> EntryFromDescribe(DescribeOf(n, IxEdges))]

\* The parents and children of an object according to its describe
NeighborsInSchema(name) ==
  LET ns == listNeighborApis(DescribedIndex({name}), name)
  IN {ns[k] : k \in 1..Len(ns)}

\* The indexes handed to expandDescribeIndex: built for the start object
\* (its describe succeeded or failed), built for it and holding an older
\* entry of Contact, built for it and Case, built for it and all its
\* neighbours, or empty
InitialIndexes(start) ==
  { <<>>,
    IndexPut(<<>>, start, EmptyEntry),
    IndexPut(<<>>, start, EntryFromDescribe(DescribeOf(start, IxEdges))),
    IndexPut(IndexPut(<<>>, "Contact", EntryFromDescribe(DescribeOf("Contact", {}))),
             start, EntryFromDescribe(DescribeOf(start, IxEdges))),
    DescribedIndex({start, "Case"}),
    DescribedIndex({start} \cup NeighborsInSchema(start)) }

ExpandInit ==
  /\ exStart \in ExpandStarts
  /\ exInitial \in InitialIndexes(exStart)
  /\ exIndex = exInitial
  /\ exMaxDepth \in 0..MaxExpandDepth
  /\ exPc = "start"
  /\ exVisited = {}
  /\ exFrontier = <<>>
  /\ exNext = <<>>
  /\ exDepth = 0
  /\ ixObjects = <<>>
  /\ ixOrgId \in {"", "org1"}
  /\ ixFailing \in SUBSET ExpandFailing
  /\ ixPc = "idle"
  /\ ixUnique = <<>>
  /\ ixPos = 0
  /\ index = <<>>
  /\ ixSource = <<>>
  /\ describeCache = <<>>
  /\ now = 0

ExpandIdle ==
  /\ exStart = ""
  /\ exInitial = <<>>
  /\ exIndex = <<>>
  /\ exMaxDepth = 0
  /\ exPc = "idle"
  /\ exVisited = {}
  /\ exFrontier = <<>>
  /\ exNext = <<>>
  /\ exDepth = 0

ExpandInputs == <<exInitial, exStart, exMaxDepth>>

OtherThanExpand == <<resolverVars, plannerVars, fieldVars, sessionVars, groupVars, simVars, lateVars>>

\* const visited = new Set([startObject]); let frontier = [startObject]
ExStart ==
  /\ exPc = "start"
  /\ exVisited' = {exStart}
  /\ exFrontier' = <<exStart>>
  /\ exDepth' = 0
  /\ exPc' = "loop"
  /\ UNCHANGED <<ExpandInputs, exIndex, exNext, indexVars>>
  /\ UNCHANGED OtherThanExpand

\* The head of one round: the loop test, the neighbours of the frontier and
\* the objects to describe; with none the function returns the index,
\* otherwise it calls buildDescribeIndex(sf, toDescribe, { orgId })
ExRound ==
  /\ exPc = "loop"
  /\ LET next == NextFrontier(exIndex, exFrontier, exVisited, <<>>, 1)
         toDescribe == ToDescribe(exIndex, next)
     IN IF exDepth >= exMaxDepth \/ toDescribe = <<>>
        THEN /\ exPc' = "done"
             /\ UNCHANGED <<exNext, indexVars>>
        ELSE /\ exPc' = "awaiting"
             /\ exNext' = next
             /\ ixObjects' = toDescribe
             /\ ixPc' = "start"
             /\ UNCHANGED <<ixOrgId, ixFailing, ixUnique, ixPos, index, ixSource,
                            describeCache, now>>
  /\ UNCHANGED <<ExpandInputs, exIndex, exVisited, exFrontier, exDepth>>
  /\ UNCHANGED OtherThanExpand

\* The awaited buildDescribeIndex settles: its entries are merged and the
\* frontier advances; a rejection is swallowed by the catch and the index
\* is returned as it is
ExMerge ==
  /\ exPc = "awaiting"
  /\ ixPc \in {"done", "raised"}
  /\ IF ixPc = "raised"
     THEN /\ exPc' = "done"
          /\ UNCHANGED <<exIndex, exVisited, exFrontier, exDepth>>
     ELSE /\ exIndex' = MergeNeighborIndex(exIndex, index)
          /\ exVisited' = exVisited \cup {exNext[k] : k \in 1..Len(exNext)}
          /\ exFrontier' = exNext
          /\ exDepth' = exDepth + 1
          /\ exPc' = "loop"
  /\ ixPc' = "idle"
  /\ UNCHANGED <<ExpandInputs, exNext, ixObjects, ixOrgId, ixFailing, ixUnique, ixPos,
                 index, ixSource, describeCache, now>>
  /\ UNCHANGED OtherThanExpand

ExpandNext ==
  \/ ExStart
  \/ ExRound
  \/ ExMerge
  \/ IxStart
  \/ IxLookup
  \/ IxDescribeSettled
  \/ IxReturn

\* ------------------------------------------------------------------------
\* SessionStore and the clarification memory of the generate routes
\* ------------------------------------------------------------------------

TTL_MS == 2700000

HistoryCap == 50

\* The session SessionStore.get answers with when it has none
EmptySession ==
  [clarifications |-> <<>>, queryHistory |-> <<>>, objectPreferences |-> <<>>]

\* f with key k set to v
FnPut(f, k, v) == [x \in DOMAIN f \cup {k} |-> IF x = k THEN v ELSE f[x]]

\* SessionStore.get at time t: the session data, and the store it leaves
\* (a missing or expired id is deleted)
SessionGet(store, id, t) ==
  IF id \notin DOMAIN store \/ t > store[id].expiresAt
  THEN [data |-> EmptySession, store |-> [x \in DOMAIN store \ {id} |-> store[x]]]
  ELSE [data |-> store[id].data, store |-> store]

\* SessionStore.set at time t
SessionSet(store, id, data, t) ==
  FnPut(store, id, [data |-> data, expiresAt |-> t + TTL_MS])

\* Mutant: storing an answer drops the answers to the other questions
addClarification_SingleSlot(store, sessionId, q, answer, t) ==
  LET got == SessionGet(store, sessionId, t)
      session == [got.data EXCEPT !.clarifications =
                    FnPut(<<>>, q, [answer |-> answer, timestamp |-> t, count |-> 1])]
  IN SessionSet(got.store, sessionId, session, t)

\* SessionStore.addClarification at time t
addClarification(store, sessionId, q, answer, t) ==
  LET got == SessionGet(store, sessionId, t)
      prev == got.data.clarifications
      count == (IF q \in DOMAIN prev THEN prev[q].count ELSE 0) + 1
      session == [got.data EXCEPT !.clarifications =
                    FnPut(prev, q, [answer |-> answer, timestamp |-> t, count |-> count])]
  IN SessionSet(got.store, sessionId, session, t)

\* SessionStore.getClarification at time t: <<clarification>> or <<>>, and
\* the store it leaves
getClarification(store, sessionId, q, t) ==
  LET got == SessionGet(store, sessionId, t)
  IN [value |-> IF q \in DOMAIN got.data.clarifications
                THEN <<got.data.clarifications[q]>> ELSE <<>>,
      store |-> got.store]

\* Mutant: the query is pushed to the end of the history
trackObjectUsage_Appends(store, sessionId, q, objectApiName, success, t) ==
  LET got == SessionGet(store, sessionId, t)
      history == got.data.queryHistory
                 \o <<[question |-> q, object |-> objectApiName, timestamp |-> t,
                       success |-> success]>>
      capped == IF Len(history) > HistoryCap THEN SubSeq(history, 1, HistoryCap)
                ELSE history
      prefs == got.data.objectPreferences
      old == IF objectApiName \in DOMAIN prefs THEN prefs[objectApiName]
             ELSE [count |-> 0, successRate |-> Rat(0, 1), lastUsed |-> 0]
      count == old.count + 1
      pref == [count |-> count,
               successRate |->
                 Rat(old.successRate.n * (count - 1) + old.successRate.d * B2I(success),
                     old.successRate.d * count),
               lastUsed |-> t]
      session == [got.data EXCEPT !.queryHistory = capped,
                                  !.objectPreferences = FnPut(prefs, objectApiName, pref)]
  IN SessionSet(got.store, sessionId, session, t)

\* SessionStore.trackObjectUsage at time t; successRate is kept as the exact
\* fraction the running average equals
trackObjectUsage(store, sessionId, q, objectApiName, success, t) ==
  LET got == SessionGet(store, sessionId, t)
      history == <<[question |-> q, object |-> objectApiName, timestamp |-> t,
                    success |-> success]>> \o got.data.queryHistory
      capped == IF Len(history) > HistoryCap THEN SubSeq(history, 1, HistoryCap)
                ELSE history
      prefs == got.data.objectPreferences
      old == IF objectApiName \in DOMAIN prefs THEN prefs[objectApiName]
             ELSE [count |-> 0, successRate |-> Rat(0, 1), lastUsed |-> 0]
      count == old.count + 1
      pref == [count |-> count,
               successRate |->
                 Rat(old.successRate.n * (count - 1) + old.successRate.d * B2I(success),
                     old.successRate.d * count),
               lastUsed |-> t]
      session == [got.data EXCEPT !.queryHistory = capped,
                                  !.objectPreferences = FnPut(prefs, objectApiName, pref)]
  IN SessionSet(got.store, sessionId, session, t)

SessionIds == {"dev"}

SessionQuestions == {"show me products", "show me items"}

SessionObjects == {"Account", "Product2"}

\* What resolveObjectsIntelligently may answer a request with
ResolutionOutcomes ==
  { [success |-> FALSE, needsClarification |-> FALSE, primaryMatch |-> ""],
    [success |-> TRUE, needsClarification |-> TRUE, primaryMatch |-> "Account"],
    [success |-> TRUE, needsClarification |-> FALSE, primaryMatch |-> "Product2"] }

\* The number of requests and clarification answers together, and of clock
\* observations
MaxSessionOps == 3
MaxSessionTicks == 2

SessionStep == (2 * TTL_MS) \div 3

SessionInit ==
  /\ mem = <<>>
  /\ sessionNow = 0
  /\ rqPc = "idle"
  /\ rqRoute = "generate"
  /\ rqSession = "dev"
  /\ rqQuestion = ""
  /\ rqUseSOSL = FALSE
  /\ rqResolved = ""
  /\ rqResolverCalled = FALSE
  /\ rqCount = 0
  /\ clCount = 0
  /\ remembered = <<>>
  /\ liveUntil = <<>>
  /\ rqExpected = <<>>

SessionIdle ==
  /\ mem = <<>>
  /\ sessionNow = 0
  /\ rqPc = "off"
  /\ rqRoute = "generate"
  /\ rqSession = "dev"
  /\ rqQuestion = ""
  /\ rqUseSOSL = FALSE
  /\ rqResolved = ""
  /\ rqResolverCalled = FALSE
  /\ rqCount = 0
  /\ clCount = 0
  /\ remembered = <<>>
  /\ liveUntil = <<>>
  /\ rqExpected = <<>>

OtherThanSession == <<resolverVars, plannerVars, fieldVars, indexVars, expandVars, groupVars, simVars, lateVars>>

RequestVars ==
  <<rqPc, rqRoute, rqSession, rqQuestion, rqUseSOSL, rqResolved, rqResolverCalled,
    rqCount, rqExpected>>

\* History of a write to session id at time t: a session that had expired
\* starts a new life with nothing remembered
RememberedAfterWrite(id, t) ==
  IF id \in DOMAIN liveUntil /\ t <= liveUntil[id] THEN remembered
  ELSE [k \in {x \in DOMAIN remembered : x[1] # id} |-> remembered[k]]

\* POST /clarify with body { sessionId, question, answer: { object } }
PostClarify ==
  /\ rqCount + clCount < MaxSessionOps
  /\ clCount' = clCount + 1
  /\ \E id \in SessionIds, q \in SessionQuestions \cup {""}, object \in SessionObjects \cup {""} :
       IF q = "" \/ object = ""
       THEN UNCHANGED <<mem, remembered, liveUntil>>
       ELSE /\ mem' = addClarification(mem, id, q, [object |-> object], sessionNow)
            /\ remembered' = FnPut(RememberedAfterWrite(id, sessionNow), <<id, q>>, object)
            /\ liveUntil' = FnPut(liveUntil, id, sessionNow + TTL_MS)
  /\ UNCHANGED <<sessionNow, RequestVars>>
  /\ UNCHANGED OtherThanSession

\* A request reaches /generate or /generate/stream and awaits the org profile
ReqArrive ==
  /\ rqPc = "idle"
  /\ rqCount + clCount < MaxSessionOps
  /\ rqCount' = rqCount + 1
  /\ rqRoute' \in {"generate", "stream"}
  /\ rqSession' \in SessionIds
  /\ rqQuestion' \in SessionQuestions
  /\ rqUseSOSL' \in BOOLEAN
  /\ rqResolved' = ""
  /\ rqResolverCalled' = FALSE
  /\ rqExpected' = <<>>
  /\ rqPc' = "loading"
  /\ UNCHANGED <<mem, sessionNow, clCount, remembered, liveUntil>>
  /\ UNCHANGED OtherThanSession

\* The handler looks the clarification up: a stored answer is the resolved
\* object, otherwise the handler awaits resolveObjectsIntelligently
ReqLookup ==
  /\ rqPc = "loading"
  /\ LET existingClarification == getClarification(mem, rqSession, rqQuestion, sessionNow)
     IN /\ mem' = existingClarification.store
        /\ IF existingClarification.value # <<>>
           THEN /\ rqResolved' = existingClarification.value[1].answer.object
                /\ rqPc' = "resolved"
           ELSE /\ rqResolved' = ""
                /\ rqPc' = "resolving"
  /\ rqExpected' =
       IF /\ <<rqSession, rqQuestion>> \in DOMAIN remembered
          /\ sessionNow <= liveUntil[rqSession]
       THEN <<remembered[<<rqSession, rqQuestion>>]>>
       ELSE <<>>
  /\ UNCHANGED <<sessionNow, rqRoute, rqSession, rqQuestion, rqUseSOSL, rqResolverCalled,
                 rqCount, clCount, remembered, liveUntil>>
  /\ UNCHANGED OtherThanSession

\* The awaited resolver answers: /generate asks for clarification unless
\* the resolution succeeded unambiguously; /generate/stream reports
\* needs_object or asks unless the question is a cross-object search
ReqResolved ==
  /\ rqPc = "resolving"
  /\ rqResolverCalled' = TRUE
  /\ \E resolution \in ResolutionOutcomes :
       IF rqRoute = "generate"
       THEN IF ~resolution.success \/ resolution.needsClarification
            THEN rqPc' = "asked" /\ rqResolved' = ""
            ELSE rqPc' = "resolved" /\ rqResolved' = resolution.primaryMatch
       ELSE IF ~rqUseSOSL /\ ~resolution.success
            THEN rqPc' = "failed" /\ rqResolved' = ""
            ELSE IF ~rqUseSOSL /\ resolution.needsClarification
                 THEN rqPc' = "asked" /\ rqResolved' = ""
                 ELSE /\ rqPc' = "resolved"
                      /\ rqResolved' = IF resolution.success THEN resolution.primaryMatch
                                       ELSE "Account"
  /\ UNCHANGED <<mem, sessionNow, rqRoute, rqSession, rqQuestion, rqUseSOSL, rqCount,
                 clCount, remembered, liveUntil, rqExpected>>
  /\ UNCHANGED OtherThanSession

\* The handler ends: after a query it tracks the usage of the object it
\* queried, otherwise it has answered without touching the session; the
\* request's locals are gone
\* The object whose usage the handler records
TrackingObject ==
  IF rqRoute = "stream" /\ rqUseSOSL THEN "SOSL_SEARCH" ELSE rqResolved

ReqFinish ==
  /\ rqPc \in {"resolved", "asked", "failed"}
  /\ rqPc' = "idle"
  /\ rqRoute' = "generate"
  /\ rqUseSOSL' = FALSE
  /\ rqResolved' = ""
  /\ rqResolverCalled' = FALSE
  /\ rqExpected' = <<>>
  /\ rqSession' = "dev"
  /\ rqQuestion' = ""
  /\ \E tracked \in BOOLEAN, success \in BOOLEAN :
       IF rqPc = "resolved" /\ tracked
       THEN /\ mem' = trackObjectUsage(mem, rqSession, rqQuestion, TrackingObject, success, sessionNow)
            /\ remembered' = RememberedAfterWrite(rqSession, sessionNow)
            /\ liveUntil' = FnPut(liveUntil, rqSession, sessionNow + TTL_MS)
       ELSE UNCHANGED <<mem, remembered, liveUntil>>
  /\ UNCHANGED <<sessionNow, rqCount, clCount>>
  /\ UNCHANGED OtherThanSession

\* Time passes
SessionTick ==
  /\ sessionNow < MaxSessionTicks * SessionStep
  /\ sessionNow' = sessionNow + SessionStep
  /\ UNCHANGED <<mem, RequestVars, clCount, remembered, liveUntil>>
  /\ UNCHANGED OtherThanSession

GroupIdle ==
  /\ gbIndex = <<>>
  /\ gbObject = ""
  /\ gbKeywords = <<>>
  /\ gbPc = "off"
  /\ gbResult = <<>>

SimIdle ==
  /\ simStr1 = ""
  /\ simStr2 = ""
  /\ simPc = "off"
  /\ simForward = RZero
  /\ simBackward = RZero

SessionNext ==
  \/ PostClarify
  \/ ReqArrive
  \/ ReqLookup
  \/ ReqResolved
  \/ ReqFinish
  \/ SessionTick

\* ------------------------------------------------------------------------
\* A call of pickGroupByLookup
\* ------------------------------------------------------------------------

\* The lookup fields an object's describe is drawn from
GroupFieldPool ==
  << Field("Location__c", "Location", TRUE, TRUE, FALSE, "Location__r", <<"Location__c">>),
     Field("OwnerId", "Owner ID", TRUE, TRUE, FALSE, "Owner", <<"User", "Group">>),
     Field("Warehouse__c", "Warehouse", FALSE, FALSE, FALSE, "Warehouse__r",
           <<"Warehouse__c">>),
     Field("Site__c", "Site", TRUE, FALSE, FALSE, "Site__r", <<"Site__c">>),
     Field("Zone__c", "Zone", TRUE, FALSE, FALSE, "Zone__r", <<"Zone__c">>),
     Field("Inventory_Location__c", "Inventory Location", TRUE, TRUE, FALSE,
           "Inventory_Location__r", <<"Location__c">>),
     Field("Broken__c", "Broken", TRUE, TRUE, FALSE, "Broken__r", <<>>),
     Field("AccountId", "Account ID", TRUE, TRUE, FALSE, "Account", <<"Account">>) >>

\* The largest number of lookup fields in a drawn describe
MaxLookups == 3

\* The longest keyword list
MaxKeywords == 2

GroupKeywords == {"location", "owner", "Account", "the", "warehouse"}

GroupKeywordLists == UNION {[1..n -> GroupKeywords] : n \in 0..MaxKeywords}

RECURSIVE PoolFields(_, _)
PoolFields(chosen, i) ==
  IF i > Len(GroupFieldPool) THEN <<>>
  ELSE (IF i \in chosen THEN <<GroupFieldPool[i]>> ELSE <<>>) \o PoolFields(chosen, i + 1)

\* The describe of Lot__c with the chosen lookup fields after the base fields
GroupDescribe(chosen) ==
  [name |-> "Lot__c", label |-> "Lot", labelPlural |-> "Lots",
   fields |-> BaseFields("Lot__c") \o PoolFields(chosen, 1),
   childRelationships |-> <<>>]

\* Lot__c described, Case with the entry of a failed describe, anything else
\* without an entry
GroupIndexes ==
  { IndexPut(IndexPut(<<>>, "Lot__c", EntryFromDescribe(GroupDescribe(c))),
             "Case", EmptyEntry) :
      c \in {x \in SUBSET (1..Len(GroupFieldPool)) : Cardinality(x) <= MaxLookups} }

GroupObjects == {"Lot__c", "Case", "Missing__c"}

GroupInit ==
  /\ gbIndex \in GroupIndexes
  /\ gbObject \in GroupObjects
  /\ gbKeywords \in GroupKeywordLists
  /\ gbPc = "idle"
  /\ gbResult = <<>>

\* A call pickGroupByLookup(index, objectApiName, keywords)
PickGroupBy ==
  /\ gbPc = "idle"
  /\ gbResult' = pickGroupByLookup(gbIndex, gbObject, gbKeywords)
  /\ gbPc' = "picked"
  /\ UNCHANGED <<gbIndex, gbObject, gbKeywords>>
  /\ UNCHANGED <<resolverVars, plannerVars, fieldVars, indexVars, expandVars, sessionVars,
                 simVars, lateVars>>

GroupNext == PickGroupBy

\* ------------------------------------------------------------------------
\* Calls of calculateSimilarity
\* ------------------------------------------------------------------------

SimAlphabet == {"a", "b", "c"}

\* The longest argument
MaxSimLen == 3

\* The strings over SimAlphabet of length at most n
RECURSIVE SimStrings(_)
SimStrings(n) ==
  IF n = 0 THEN {""}
  ELSE LET shorter == SimStrings(n - 1)
       IN shorter \cup {s \o c : s \in shorter, c \in SimAlphabet}

SimInit ==
  /\ simStr1 \in SimStrings(MaxSimLen)
  /\ simStr2 \in SimStrings(MaxSimLen)
  /\ simPc = "idle"
  /\ simForward = RZero
  /\ simBackward = RZero

OtherThanSim ==
  <<resolverVars, plannerVars, fieldVars, indexVars, expandVars, sessionVars, groupVars,
    lateVars>>

\* The call calculateSimilarity(str1, str2)
SimCall ==
  /\ simPc = "idle"
  /\ simForward' = calculateSimilarity(simStr1, simStr2)
  /\ simPc' = "forward"
  /\ UNCHANGED <<simStr1, simStr2, simBackward>>
  /\ UNCHANGED OtherThanSim

\* The call with the arguments exchanged, calculateSimilarity(str2, str1)
SimCallSwapped ==
  /\ simPc = "forward"
  /\ simBackward' = calculateSimilarity(simStr2, simStr1)
  /\ simPc' = "both"
  /\ UNCHANGED <<simStr1, simStr2, simForward>>
  /\ UNCHANGED OtherThanSim

SimNext ==
  \/ SimCall
  \/ SimCallSwapped

\* ------------------------------------------------------------------------
\* Calls of SessionStore.trackObjectUsage on one session
\* ------------------------------------------------------------------------

\* The number of calls explored from each initial session
MaxTrackCalls == 4

\* The time between two calls, well inside the session's life
TrackStep == TTL_MS \div 10

TrackQuestion(objectApiName) ==
  IF objectApiName = "Account" THEN "show me products" ELSE "show me items"

\* The k-th call of the usage a session starts with
SeedCall(k) ==
  LET objectApiName == IF k % 3 = 0 THEN "Account" ELSE "Product2"
  IN [question |-> TrackQuestion(objectApiName), object |-> objectApiName,
      timestamp |-> 0, success |-> (k % 2 = 0)]

\* The lengths of history from which every further call is explored: a new
\* session, and one whose history is about to reach the cap
SeedLengths == {0, HistoryCap - 2}

TrackInit ==
  /\ trMem = <<>>
  /\ trLog = <<>>
  /\ trNow = 0
  /\ trCount = 0
  /\ trPc = "run"

\* The calls that fill a session's history: trackObjectUsage with the
\* arguments of SeedCall
TrackReplay ==
  /\ trPc = "run"
  /\ trCount = 0
  /\ Len(trLog) < HistoryCap - 2
  /\ LET c == SeedCall(Len(trLog) + 1)
     IN /\ trMem' = trackObjectUsage(trMem, "dev", c.question, c.object, c.success, trNow)
        /\ trLog' = Append(trLog, c)
  /\ UNCHANGED <<trNow, trCount, trPc>>
  /\ UNCHANGED OtherThanTrack

\* SessionStore.trackObjectUsage('dev', question, objectApiName, success)
TrackUsage ==
  /\ trPc = "run"
  /\ trCount < MaxTrackCalls
  /\ trCount > 0 \/ Len(trLog) \in SeedLengths
  /\ \E objectApiName \in SessionObjects, success \in BOOLEAN, dt \in {0, TrackStep} :
       LET t == trNow + dt
           q == TrackQuestion(objectApiName)
       IN /\ trNow' = t
          /\ trMem' = trackObjectUsage(trMem, "dev", q, objectApiName, success, t)
          /\ trLog' = Append(trLog, [question |-> q, object |-> objectApiName,
                                     timestamp |-> t, success |-> success])
  /\ trCount' = trCount + 1
  /\ UNCHANGED trPc
  /\ UNCHANGED OtherThanTrack

TrackNext ==
  \/ TrackReplay
  \/ TrackUsage

\* ------------------------------------------------------------------------
\* withRetry
\* ------------------------------------------------------------------------

\* retries = 3, delayMs = 1000, backoffFactor = 2, and the jitter below 200
\* that Math.floor(Math.random() * 200) adds
MaxRetries == 3
delayMs == 1000
backoffFactor == 2
JitterSpan == 200

\* What taskFn may throw: HTTP errors by status code, network errors by code
TaskErrors ==
  { [statusCode |-> 429, code |-> ""], [statusCode |-> 503, code |-> ""],
    [statusCode |-> 400, code |-> ""], [statusCode |-> 0, code |-> "ETIMEDOUT"] }

TaskOutcomes ==
  {[ok |-> TRUE, value |-> "data"]} \cup {[ok |-> FALSE, error |-> e] : e \in TaskErrors}

\* shouldRetrySalesforce / shouldRetryLLM
shouldRetrySalesforce(err) ==
  \/ err.statusCode = 429
  \/ (err.statusCode >= 500 /\ err.statusCode < 600)
  \/ err.code \in {"ETIMEDOUT", "ECONNRESET"}

\* shouldRetry(err): the default () => true, or the Salesforce policy
shouldRetry(policy, err) ==
  IF policy = "default" THEN TRUE ELSE shouldRetrySalesforce(err)

RECURSIVE Pow(_, _)
Pow(b, e) == IF e = 0 THEN 1 ELSE b * Pow(b, e - 1)

\* Mutant: the policy is not asked
GivesUp_IgnoresPolicy(attempt, retries, retryable) == attempt = retries

\* if (attempt === retries || !shouldRetry(err)) throw err
GivesUp(attempt, retries, retryable) == attempt = retries \/ ~retryable

RetryInit ==
  /\ rtRetries \in (-1)..MaxRetries
  /\ rtPolicy \in {"default", "salesforce"}
  /\ rtAttempt = 0
  /\ rtLastError = <<>>
  /\ rtWait = 0
  /\ rtCalls = <<>>
  /\ rtSettled = <<>>
  /\ rtPc = "try"

\* One turn of the loop: taskFn is called; its value is returned, or its
\* error is rethrown, or the sleep before the next attempt begins
RetryAttempt ==
  /\ rtPc = "try"
  /\ rtAttempt <= rtRetries
  /\ \E outcome \in TaskOutcomes, jitter \in {0, JitterSpan - 1} :
       /\ rtCalls' = Append(rtCalls, outcome)
       /\ IF outcome.ok
          THEN /\ rtSettled' = <<outcome.value>>
               /\ rtPc' = "resolved"
               /\ UNCHANGED <<rtLastError, rtWait>>
          ELSE /\ rtLastError' = <<outcome.error>>
               /\ IF GivesUp(rtAttempt, rtRetries, shouldRetry(rtPolicy, outcome.error))
                  THEN /\ rtSettled' = <<outcome.error>>
                       /\ rtPc' = "rejected"
                       /\ UNCHANGED rtWait
                  ELSE /\ rtWait' = delayMs * Pow(backoffFactor, rtAttempt) + jitter
                       /\ rtPc' = "wait"
                       /\ UNCHANGED rtSettled
  /\ UNCHANGED <<rtRetries, rtPolicy, rtAttempt>>
  /\ UNCHANGED OtherThanRetry

\* The timer fires: attempt++
RetryWake ==
  /\ rtPc = "wait"
  /\ rtAttempt' = rtAttempt + 1
  /\ rtPc' = "try"
  /\ UNCHANGED <<rtRetries, rtPolicy, rtLastError, rtWait, rtCalls, rtSettled>>
  /\ UNCHANGED OtherThanRetry

\* The loop ends without a return: throw lastError
RetryExhausted ==
  /\ rtPc = "try"
  /\ rtAttempt > rtRetries
  /\ rtSettled' = <<rtLastError>>
  /\ rtPc' = "rejected"
  /\ UNCHANGED <<rtRetries, rtPolicy, rtAttempt, rtLastError, rtWait, rtCalls>>
  /\ UNCHANGED OtherThanRetry

RetryNext ==
  \/ RetryAttempt
  \/ RetryWake
  \/ RetryExhausted

\* ------------------------------------------------------------------------
\* Calls of levenshteinDistance on three strings
\* ------------------------------------------------------------------------

LevAlphabet == {"a", "b"}

\* The longest argument
MaxLevLen == 3

\* The strings over LevAlphabet of length at most n
RECURSIVE LevStrings(_)
LevStrings(n) ==
  IF n = 0 THEN {""}
  ELSE LET shorter == LevStrings(n - 1)
       IN shorter \cup {x \o c : x \in shorter, c \in LevAlphabet}

LevInit ==
  /\ levA \in LevStrings(MaxLevLen)
  /\ levB \in LevStrings(MaxLevLen)
  /\ levC \in LevStrings(MaxLevLen)
  /\ levAB = 0
  /\ levAC = 0
  /\ levCB = 0
  /\ levPc = "idle"

\* The three calls
LevCall ==
  /\ levPc = "idle"
  /\ levAB' = levenshteinDistance(levA, levB)
  /\ levAC' = levenshteinDistance(levA, levC)
  /\ levCB' = levenshteinDistance(levC, levB)
  /\ levPc' = "done"
  /\ UNCHANGED <<levA, levB, levC>>
  /\ UNCHANGED OtherThanLev

LevNext == LevCall

\* ------------------------------------------------------------------------
\* POST /generate from the pre-count to the query
\* ------------------------------------------------------------------------

GenObjects == {"Account", "Contact", "Lot__c"}

\* process.env.LARGE_DATA_THRESHOLD || 1000
LARGE_DATA_THRESHOLD == 1000

\* The totals a pre-count may answer with
GenTotals == {0, LARGE_DATA_THRESHOLD, LARGE_DATA_THRESHOLD + 1}

\* What sf.describe answers inside checkCrudPermissions: queryable or not,
\* or a failure
CrudOutcomes == {"queryable", "notQueryable", "failed"}

\* checkCrudPermissions(sf, objectApiName, 'read').allowed: describe.queryable,
\* and true when the describe failed
CrudAllowed(outcome) == outcome # "notQueryable"

\* validateQuerySecurity(...).allowed; anyAccessible tells whether
\* checkFieldPermissions found an accessible field, threw whether a check
\* raised an exception
SecurityAllowed(objectApiName, blockedObjects, allowedObjects, crud, anyAccessible, threw) ==
  /\ objectApiName \notin blockedObjects
  /\ (allowedObjects # {} => objectApiName \in allowedObjects)
  /\ ~threw
  /\ CrudAllowed(crud)
  /\ anyAccessible

GenInit ==
  /\ gnTarget \in GenObjects
  /\ gnBlocked \in SUBSET GenObjects
  /\ gnAllowedList \in {{}, {"Account", "Contact"}}
  /\ gnNeedsDate \in BOOLEAN
  /\ gnTotal = 0
  /\ gnSecurity = <<>>
  /\ gnSent = <<>>
  /\ gnResponse = <<>>
  /\ gnPc = "target"

GenInputs == <<gnTarget, gnBlocked, gnAllowedList, gnNeedsDate>>

\* if (needsDateClarification(user_question)) return res.json({ type: 'clarify', ... })
GenDateClarify ==
  /\ gnPc = "target"
  /\ gnNeedsDate
  /\ gnResponse' = <<[status |-> 200, body |-> "clarify"]>>
  /\ gnPc' = "done"
  /\ UNCHANGED <<GenInputs, gnTotal, gnSecurity, gnSent>>
  /\ UNCHANGED OtherThanGen

\* countResp = await sf.query(countPlan.soql), 400 soql_count_failed when it
\* throws
GenPreCount ==
  /\ gnPc = "target"
  /\ ~gnNeedsDate
  /\ gnSent' = Append(gnSent, [kind |-> "count", object |-> gnTarget])
  /\ \/ /\ gnResponse' = <<[status |-> 400, body |-> "soql_count_failed"]>>
        /\ gnPc' = "done"
        /\ UNCHANGED gnTotal
     \/ /\ gnTotal' \in GenTotals
        /\ gnPc' = "counted"
        /\ UNCHANGED gnResponse
  /\ UNCHANGED <<GenInputs, gnSecurity>>
  /\ UNCHANGED OtherThanGen

\* The plan is built, then securityCheck = await validateQuerySecurity(sf,
\* targetObject, plan.fields, orgProfile); 403 access_denied unless allowed
GenValidate ==
  /\ gnPc = "counted"
  /\ \E crud \in CrudOutcomes, anyAccessible \in BOOLEAN, threw \in BOOLEAN :
       LET allowed == SecurityAllowed(gnTarget, gnBlocked, gnAllowedList, crud,
                                      anyAccessible, threw)
       IN /\ gnSecurity' = <<allowed>>
          /\ IF allowed
             THEN gnPc' = "validated" /\ UNCHANGED gnResponse
             ELSE /\ gnResponse' = <<[status |-> 403, body |-> "access_denied"]>>
                  /\ gnPc' = "done"
  /\ UNCHANGED <<GenInputs, gnTotal, gnSent>>
  /\ UNCHANGED OtherThanGen

\* if (total > threshold) return res.json({ type: 'text', ... suggestExport })
GenTooLarge ==
  /\ gnPc = "validated"
  /\ gnTotal > LARGE_DATA_THRESHOLD
  /\ gnResponse' = <<[status |-> 200, body |-> "suggestExport"]>>
  /\ gnPc' = "done"
  /\ UNCHANGED <<GenInputs, gnTotal, gnSecurity, gnSent>>
  /\ UNCHANGED OtherThanGen

\* data = await sf.query(plan.soql), 400 soql_query_failed when it throws
GenQuery ==
  /\ gnPc = "validated"
  /\ gnTotal <= LARGE_DATA_THRESHOLD
  /\ gnSent' = Append(gnSent, [kind |-> "data", object |-> gnTarget])
  /\ \E ok \in BOOLEAN :
       gnResponse' = <<IF ok THEN [status |-> 200, body |-> "table"]
                       ELSE [status |-> 400, body |-> "soql_query_failed"]>>
  /\ gnPc' = "done"
  /\ UNCHANGED <<GenInputs, gnTotal, gnSecurity>>
  /\ UNCHANGED OtherThanGen

GenNext ==
  \/ GenDateClarify
  \/ GenPreCount
  \/ GenValidate
  \/ GenTooLarge
  \/ GenQuery

\* ------------------------------------------------------------------------
\* Concurrent calls of buildDescribeIndex and expandDescribeIndex
\* ------------------------------------------------------------------------

\* The calls: 1 is buildDescribeIndex(sf, objects, { orgId }), 2 is
\* expandDescribeIndex(sf, index, startObject, 1, { orgId }) on the index of
\* its start object. They interleave where they await a describe.
Procs == {1, 2}

\* The longest request of call 1, and the clock observations
MaxConcRequested == 2
MaxConcTicks == 1

ConcNames == {"Account", "Contact"}

\* The requests of call 1: lists without repetition
ConcRequests ==
  {r \in UNION {[1..n -> ConcNames] : n \in 1..MaxConcRequested} :
     \A i, j \in 1..Len(r) : r[i] = r[j] => i = j}

ConcOrgs == {"org1", "org2"}

\* The cache before the calls: empty, or left by an earlier call that
\* described Account, a full life ago or just now
ConcCaches ==
  {<<>>} \cup
  { [k \in {<<"org1", "Account">>} |->
       [value |-> DescribeOf("Account", IxEdges), expiresAt |-> e]] :
    e \in {0, DEFAULT_TTL_MS} }

\* What expandDescribeIndex asks buildDescribeIndex for in its round
ExpandRequest(start) ==
  LET idx == DescribedIndex({start})
  IN ToDescribe(idx, NextFrontier(idx, <<start>>, {start}, <<>>, 1))

ConcInit ==
  /\ \E objects \in ConcRequests, start \in ConcNames, org \in ConcOrgs :
       ccProc =
         [p \in Procs |->
            IF p = 1
            THEN [kind |-> "build", objects |-> objects, orgId |-> "org1", start |-> "",
                  pc |-> "start", unique |-> <<>>, pos |-> 0, index |-> <<>>,
                  result |-> <<>>]
            ELSE [kind |-> "expand", objects |-> ExpandRequest(start), orgId |-> org,
                  start |-> start, pc |-> "start", unique |-> <<>>, pos |-> 0,
                  index |-> <<>>, result |-> <<>>]]
  /\ ccCache \in ConcCaches
  /\ ccNow = 0
  /\ ccFailing \in SUBSET {"Contact"}
  /\ ccWritten = [k \in DOMAIN ccCache |-> ccCache[k].expiresAt - DEFAULT_TTL_MS]

\* const index = { objects: {} }; const unique = ...
CcStart(p) ==
  /\ ccProc[p].pc = "start"
  /\ ccProc' = [ccProc EXCEPT ![p].unique = UniqueObjects(ccProc[p].objects),
                              ![p].pos = 1, ![p].pc = "loop"]
  /\ UNCHANGED <<ccCache, ccNow, ccFailing, ccWritten>>
  /\ UNCHANGED OtherThanConc

\* The head of one loop body: DescribeCache.get; a hit builds the entry, a
\* miss awaits sf.describeSObject and lets the other call run
CcLookup(p) ==
  /\ ccProc[p].pc = "loop"
  /\ ccProc[p].pos <= Len(ccProc[p].unique)
  /\ LET name == ccProc[p].unique[ccProc[p].pos]
         got == DescribeCacheGet(ccCache, ccProc[p].orgId, name, ccNow)
     IN /\ ccCache' = got.cache
        /\ ccWritten' = [k \in DOMAIN got.cache |-> ccWritten[k]]
        /\ IF got.value # <<>>
           THEN ccProc' = [ccProc EXCEPT
                  ![p].index = IndexPut(@, name, EntryFromDescribe(got.value[1])),
                  ![p].pos = @ + 1]
           ELSE ccProc' = [ccProc EXCEPT ![p].pc = "describing"]
  /\ UNCHANGED <<ccNow, ccFailing>>
  /\ UNCHANGED OtherThanConc

\* The awaited describe settles: resolved, DescribeCache.set and the entry;
\* rejected, the catch block
CcDescribeSettled(p) ==
  /\ ccProc[p].pc = "describing"
  /\ LET name == ccProc[p].unique[ccProc[p].pos]
         failed == OnDescribeFailure(ccProc[p].index, name)
         d == DescribeOf(name, IxEdges)
     IN IF name \in ccFailing
        THEN /\ ccProc' = [ccProc EXCEPT ![p].index = failed.index, ![p].pos = @ + 1,
                                         ![p].pc = "loop"]
             /\ UNCHANGED <<ccCache, ccWritten>>
        ELSE /\ ccProc' = [ccProc EXCEPT
                  ![p].index = IndexPut(@, name, EntryFromDescribe(d)),
                  ![p].pos = @ + 1, ![p].pc = "loop"]
             /\ ccCache' = DescribeCacheSet(ccCache, ccProc[p].orgId, name, d, ccNow)
             /\ ccWritten' = [k \in DOMAIN ccCache' |->
                                IF k = <<ccProc[p].orgId, name>> THEN ccNow
                                ELSE ccWritten[k]]
  /\ UNCHANGED <<ccNow, ccFailing>>
  /\ UNCHANGED OtherThanConc

\* return index; expandDescribeIndex merges it into its own index
CcReturn(p) ==
  /\ ccProc[p].pc = "loop"
  /\ ccProc[p].pos > Len(ccProc[p].unique)
  /\ ccProc' = [ccProc EXCEPT
       ![p].pc = "done",
       ![p].result =
          IF ccProc[p].kind = "build" THEN ccProc[p].index
          ELSE MergeNeighborIndex(DescribedIndex({ccProc[p].start}), ccProc[p].index)]
  /\ UNCHANGED <<ccCache, ccNow, ccFailing, ccWritten>>
  /\ UNCHANGED OtherThanConc

\* Time passes while the calls run
CcTick ==
  /\ ccProc # <<>>
  /\ \E p \in Procs : ccProc[p].pc # "done"
  /\ ccNow < MaxConcTicks * ClockStep
  /\ ccNow' = ccNow + ClockStep
  /\ UNCHANGED <<ccProc, ccCache, ccFailing, ccWritten>>
  /\ UNCHANGED OtherThanConc

ConcNext ==
  \/ \E p \in Procs : CcStart(p)
  \/ \E p \in Procs : CcLookup(p)
  \/ \E p \in Procs : CcDescribeSettled(p)
  \/ \E p \in Procs : CcReturn(p)
  \/ CcTick

EarlyIdle ==
  /\ ResolverIdle /\ PlannerIdle /\ FieldsIdle /\ IndexIdle /\ ExpandIdle /\ SessionIdle
  /\ GroupIdle /\ SimIdle

TrackIdle ==
  /\ trMem = <<>>
  /\ trNow = 0
  /\ trLog = <<>>
  /\ trCount = 0
  /\ trPc = "off"

RetryIdle ==
  /\ rtRetries = 0
  /\ rtPolicy = ""
  /\ rtAttempt = 0
  /\ rtLastError = <<>>
  /\ rtWait = 0
  /\ rtCalls = <<>>
  /\ rtSettled = <<>>
  /\ rtPc = "off"

LevIdle ==
  /\ levA = ""
  /\ levB = ""
  /\ levC = ""
  /\ levAB = 0
  /\ levAC = 0
  /\ levCB = 0
  /\ levPc = "off"

GenIdle ==
  /\ gnTarget = ""
  /\ gnBlocked = {}
  /\ gnAllowedList = {}
  /\ gnNeedsDate = FALSE
  /\ gnTotal = 0
  /\ gnSecurity = <<>>
  /\ gnSent = <<>>
  /\ gnResponse = <<>>
  /\ gnPc = "off"

ConcIdle ==
  /\ ccProc = <<>>
  /\ ccCache = <<>>
  /\ ccNow = 0
  /\ ccFailing = {}
  /\ ccWritten = <<>>

LateIdle == TrackIdle /\ RetryIdle /\ LevIdle /\ GenIdle /\ ConcIdle

\* ------------------------------------------------------------------------
\* Specifications
\* ------------------------------------------------------------------------

\* A call of resolveObjectsIntelligently
Init == ResolverInit /\ PlannerIdle /\ FieldsIdle /\ IndexIdle /\ ExpandIdle /\ SessionIdle
  /\ GroupIdle /\ SimIdle /\ LateIdle

Next == ResolverNext

Spec == Init /\ [][Next]_vars

\* A call of planRelationshipPath
InitPlanner == ResolverIdle /\ PlannerInit /\ FieldsIdle /\ IndexIdle /\ ExpandIdle /\ SessionIdle
  /\ GroupIdle /\ SimIdle /\ LateIdle

NextPlanner == PlannerNext

SpecPlanner == InitPlanner /\ [][NextPlanner]_vars

\* The schemas that hold the cycle Account -> Contact -> Account and the
\* self-referencing lookup Contact.ReportsTo, extended towards Lot__c
CyclicEdgeSets ==
  {c \in EdgeSets : {1, 2, 3} \subseteq c /\ c \subseteq {1, 2, 3, 4, 5, 6, 10}}

InitPlannerLive == InitPlanner /\ schemaEdges \in CyclicEdgeSets

\* planRelationshipPath is synchronous: once called it runs until it returns
SpecPlannerLive == InitPlannerLive /\ [][NextPlanner]_vars /\ WF_vars(NextPlanner)

\* A call of isFieldAllowed or filterAllowedFields
InitFields == ResolverIdle /\ PlannerIdle /\ FieldsInit /\ IndexIdle /\ ExpandIdle /\ SessionIdle
  /\ GroupIdle /\ SimIdle /\ LateIdle

NextFields == FieldsNext

SpecFields == InitFields /\ [][NextFields]_vars

\* A call of buildDescribeIndex
InitIndex == ResolverIdle /\ PlannerIdle /\ FieldsIdle /\ IndexInit /\ ExpandIdle /\ SessionIdle
  /\ GroupIdle /\ SimIdle /\ LateIdle

NextIndex == IndexNext

SpecIndex == InitIndex /\ [][NextIndex]_vars

\* A call of expandDescribeIndex
InitExpand == ResolverIdle /\ PlannerIdle /\ FieldsIdle /\ ExpandInit /\ SessionIdle
  /\ GroupIdle /\ SimIdle /\ LateIdle

NextExpand == ExpandNext

SpecExpand == InitExpand /\ [][NextExpand]_vars

\* The clarification and generate routes over one SessionStore
InitSession ==
  ResolverIdle /\ PlannerIdle /\ FieldsIdle /\ IndexIdle /\ ExpandIdle /\ SessionInit
  /\ GroupIdle /\ SimIdle /\ LateIdle

NextSession == SessionNext

SpecSession == InitSession /\ [][NextSession]_vars

\* A call of pickGroupByLookup
InitGroup ==
  /\ ResolverIdle /\ PlannerIdle /\ FieldsIdle /\ IndexIdle /\ ExpandIdle /\ SessionIdle
  /\ GroupInit /\ SimIdle /\ LateIdle

NextGroup == GroupNext

SpecGroup == InitGroup /\ [][NextGroup]_vars

\* Calls of calculateSimilarity on a pair of strings
InitSim ==
  /\ ResolverIdle /\ PlannerIdle /\ FieldsIdle /\ IndexIdle /\ ExpandIdle /\ SessionIdle
  /\ GroupIdle /\ SimInit /\ LateIdle

NextSim == SimNext

SpecSim == InitSim /\ [][NextSim]_vars

\* Calls of trackObjectUsage on one session
InitTrack == EarlyIdle /\ TrackInit /\ RetryIdle /\ LevIdle /\ GenIdle /\ ConcIdle

NextTrack == TrackNext

SpecTrack == InitTrack /\ [][NextTrack]_vars

\* A call of withRetry
InitRetry == EarlyIdle /\ TrackIdle /\ RetryInit /\ LevIdle /\ GenIdle /\ ConcIdle

NextRetry == RetryNext

SpecRetry == InitRetry /\ [][NextRetry]_vars

\* Calls of levenshteinDistance
InitLev == EarlyIdle /\ TrackIdle /\ RetryIdle /\ LevInit /\ GenIdle /\ ConcIdle

NextLev == LevNext

SpecLev == InitLev /\ [][NextLev]_vars

\* POST /generate once the target object is chosen
InitGen == EarlyIdle /\ TrackIdle /\ RetryIdle /\ LevIdle /\ GenInit /\ ConcIdle

NextGen == GenNext

SpecGen == InitGen /\ [][NextGen]_vars

\* Two concurrent calls over one describe cache
InitConc == EarlyIdle /\ TrackIdle /\ RetryIdle /\ LevIdle /\ GenIdle /\ ConcInit

NextConc == ConcNext

SpecConc == InitConc /\ [][NextConc]_vars

\* ------------------------------------------------------------------------
\* Properties of the resolver
\* ------------------------------------------------------------------------

Returned == pc = "done"
Suggestions == result[1].suggestions

InUnitInterval(c) == RLe(RZero, c) /\ RLe(c, ROne)

\* The lister answered with a forbidden object that a keyword of the
\* question matches as a substring of one of its variant keys
ForbiddenObjectMatched ==
  \E i \in 1..Len(sf.sobjects) :
    /\ isProblematicSystemObject(sf.sobjects[i].name)
    /\ \E k \in 1..Len(keywords) :
         \E e \in 1..Len(VariantEntries(sf.sobjects[i])) :
           Includes(VariantEntries(sf.sobjects[i])[e].key, keywords[k])

\* C1: no suggestion of a returned ResolutionResult, and so not its
\* primaryMatch, names a forbidden object, whatever the lister returned and
\* whatever the options (includeSystemObjects included).
C1_NoForbiddenSuggestion ==
  Returned =>
    /\ \A k \in 1..Len(Suggestions) : ~isProblematicSystemObject(Suggestions[k].apiName)
    /\ \A k \in 1..Len(result[1].primaryMatch) :
         ~isProblematicSystemObject(result[1].primaryMatch[k].apiName)

\* A call with includeSystemObjects=true whose lister answer holds a
\* forbidden object that the question matches, and that returned suggestions
C1_Witness ==
  /\ Returned
  /\ options.includeSystemObjects
  /\ ForbiddenObjectMatched
  /\ Len(Suggestions) > 0

\* C5 (as stated): after context re-ranking every candidate's confidence,
\* every suggestion's confidence and ResolutionResult.confidence lie in [0,1].
C5_ConfidenceInUnitInterval ==
  /\ pc \in {"ranked", "done"} =>
       \A k \in 1..Len(rankedMatches) : InUnitInterval(rankedMatches[k].confidence)
  /\ Returned =>
       /\ \A k \in 1..Len(Suggestions) : InUnitInterval(Suggestions[k].confidence)
       /\ InUnitInterval(result[1].confidence)

\* C6: a failing lister never makes resolve raise: the call returns
\* success=false, no primaryMatch, no suggestions, needsClarification=false
\* and a non-empty clarification message.
C6_ListerFailureDegrades ==
  ~sf.ok =>
    /\ pc # "raised"
    /\ pc # "start" => catalog = <<>>
    /\ Returned =>
         /\ result[1].success = FALSE
         /\ result[1].primaryMatch = <<>>
         /\ result[1].suggestions = <<>>
         /\ result[1].needsClarification = FALSE
         /\ Len(result[1].clarificationMessage) = 1
         /\ Len(result[1].clarificationMessage[1]) > 0

\* A call whose lister failed has returned, for a question with keywords
C6_Witness == Returned /\ ~sf.ok /\ Len(keywords) > 0

\* C8: no descriptor of the built catalog names a forbidden object, whatever
\* includeSystemObjects is; with includeSystemObjects=false none names a
\* system object.
C8_CatalogExclusions ==
  pc = "catalog" =>
    \A i \in 1..Len(catalog) :
      \A j \in 1..Len(catalog[i].objects) :
        /\ ~isProblematicSystemObject(catalog[i].objects[j].apiName)
        /\ ~options.includeSystemObjects => ~isSystemObject(catalog[i].objects[j].apiName)

\* A non-empty catalog built, without system objects, from a lister answer
\* that held FlowOrchestrationWorkItem and a system object that is not forbidden
C8_Witness ==
  /\ pc = "catalog"
  /\ ~options.includeSystemObjects
  /\ Len(catalog) > 0
  /\ \E i \in 1..Len(sf.sobjects) : sf.sobjects[i].name = "FlowOrchestrationWorkItem"
  /\ \E i \in 1..Len(sf.sobjects) :
       isSystemObject(sf.sobjects[i].name) /\ ~isProblematicSystemObject(sf.sobjects[i].name)

\* C9: needsClarification is true exactly when there is more than one
\* suggestion and the first suggestion's confidence is below 0.9.
C9_NeedsClarificationIff ==
  Returned =>
    ( result[1].needsClarification
      <=> (Len(Suggestions) > 1 /\ RLt(Suggestions[1].confidence, Rat(9, 10))) )

\* A result that asks for clarification, and so has two suggestions or more
C9_Witness == Returned /\ result[1].needsClarification /\ Len(Suggestions) > 1

\* C10: suggestions hold at most one entry per canonical name, in
\* non-increasing order of confidence, and the entry of a name carries the
\* highest re-ranked confidence of all candidates of that name.
C10_DedupKeepsBest ==
  Returned =>
    /\ \A i, j \in 1..Len(Suggestions) :
         i # j => Suggestions[i].apiName # Suggestions[j].apiName
    /\ \A i \in 1..(Len(Suggestions) - 1) :
         RLe(Suggestions[i + 1].confidence, Suggestions[i].confidence)
    /\ \A i \in 1..Len(Suggestions) :
         \A k \in 1..Len(rankedMatches) :
           rankedMatches[k].apiName = Suggestions[i].apiName
             => RLe(rankedMatches[k].confidence, Suggestions[i].confidence)

\* Two suggestions or more, one of them for a name that had candidates of
\* different re-ranked confidence
C10_Witness ==
  /\ Returned
  /\ Len(Suggestions) > 1
  /\ \E i, j \in 1..Len(rankedMatches) :
       /\ rankedMatches[i].apiName = rankedMatches[j].apiName
       /\ RLt(rankedMatches[i].confidence, rankedMatches[j].confidence)
       /\ \E k \in 1..Len(Suggestions) : Suggestions[k].apiName = rankedMatches[i].apiName

\* ------------------------------------------------------------------------
\* Properties of the relationship planner
\* ------------------------------------------------------------------------

Planned == planPc = "done"

\* C2: when planRelationshipPath returns a result, its objectApiName is not
\* a forbidden object and no hop of its path leads to a forbidden object; a
\* forbidden start object yields no result. Throughout the traversal no
\* forbidden object is visited or scored.
C2_PlanAvoidsForbidden ==
  /\ \A o \in visited : ~isProblematicSystemObject(o)
  /\ \A k \in 1..Len(results) :
       /\ ~isProblematicSystemObject(results[k].objectApiName)
       /\ \A h \in 1..Len(results[k].path) :
            ~isProblematicSystemObject(results[k].path[h].to)
  /\ Planned =>
       /\ \A r \in 1..Len(planResult) :
            /\ ~isProblematicSystemObject(planResult[r].objectApiName)
            /\ \A h \in 1..Len(planResult[r].path) :
                 ~isProblematicSystemObject(planResult[r].path[h].to)
       /\ isProblematicSystemObject(startObject) => planResult = <<>>

\* A plan that returned an object reached over at least one hop, in a schema
\* where a visited object has a relationship to a forbidden object
C2_Witness ==
  /\ Planned
  /\ planResult # <<>>
  /\ Len(planResult[1].path) > 0
  /\ \E e \in schemaEdges :
       /\ EdgePool[e].from \in visited
       /\ isProblematicSystemObject(EdgePool[e].to)

\* A plan from a forbidden start object that is described in the index
ForbiddenStartPlanned ==
  /\ Planned
  /\ isProblematicSystemObject(startObject)
  /\ startObject \in DOMAIN describeIndex

\* The text dfs searches for an object's own keyword hits
HayOf(objectApiName) ==
  LET d == describeIndex[objectApiName].describe
  IN ToLowerCase(objectApiName \o " " \o (IF d = <<>> THEN "" ELSE d[1].label)
                 \o " " \o (IF d = <<>> THEN "" ELSE d[1].labelPlural))

LoweredKeywords == MapLower(targetKeywords, 1)

\* The keywords dfs counts: the non-empty ones
CountedKeywords == {k \in 1..Len(LoweredKeywords) : LoweredKeywords[k] # ""}

\* C11: the result of planRelationshipPath is one of the scored objects, no
\* scored object has a higher score, and none of the same score is
\* shallower. In particular, when some keyword is supplied and a scored
\* object C at depth 2 was reached through B, C's name text has every keyword
\* and B's has none, then the result is not B, and it is C when the start
\* object's own text and the other scored objects give no higher score.
C11_BestScoreThenShallowest ==
  Planned =>
    /\ (planResult = <<>>) <=> (results = <<>>)
    /\ \A r \in 1..Len(planResult) :
         /\ \E k \in 1..Len(results) : results[k] = planResult[r]
         /\ \A k \in 1..Len(results) :
              /\ results[k].score <= planResult[r].score
              /\ results[k].score = planResult[r].score =>
                   planResult[r].depth <= results[k].depth
         /\ \A c \in 1..Len(results) :
              LET C == results[c]
              IN (/\ C.depth = 2
                  /\ CountedKeywords # {}
                  /\ \A k \in CountedKeywords :
                       /\ Includes(HayOf(C.objectApiName), LoweredKeywords[k])
                       /\ ~Includes(HayOf(C.path[1].to), LoweredKeywords[k]))
                 => /\ planResult[r].objectApiName # C.path[1].to
                    /\ (\A k \in 1..Len(results) : k # c => results[k].score < C.score)
                         => planResult[r] = C

\* A plan whose result C lies two hops from the start, behind an object B
\* that was scored lower although it has C as a neighbour
C11_Witness ==
  /\ Planned
  /\ planResult # <<>>
  /\ planResult[1].depth = 2
  /\ CountedKeywords # {}
  /\ \A k \in CountedKeywords :
       /\ Includes(HayOf(planResult[1].objectApiName), LoweredKeywords[k])
       /\ ~Includes(HayOf(planResult[1].path[1].to), LoweredKeywords[k])
  /\ \E b \in 1..Len(results) :
       /\ results[b].objectApiName = planResult[1].path[1].to
       /\ results[b].depth = 1
       /\ results[b].score > 0

\* The hop h of a path starts at the start object or at the previous hop's target
HopSource(path, h) == IF h = 1 THEN startObject ELSE path[h - 1].to

\* The hop is a relationship of its source object in the index
HopInIndex(path, h) ==
  /\ HopSource(path, h) \in DOMAIN describeIndex
  /\ LET obj == describeIndex[HopSource(path, h)]
         map == IF path[h].type = "parent" THEN obj.relationships
                ELSE obj.childRelationships
     IN /\ path[h].type \in {"parent", "child"}
        /\ MapHas(map, path[h].relName)
        /\ MapGet(map, path[h].relName) = path[h].to

IsChainTo(path, objectApiName) ==
  /\ \A h \in 1..Len(path) : HopInIndex(path, h)
  /\ objectApiName = IF path = <<>> THEN startObject ELSE path[Len(path)].to

\* C12: a result of planRelationshipPath has depth at most 3, its depth is
\* the number of hops of its path, and its path is a chain of parent and
\* child relationships of the index from the start object to the result's
\* object.
C12_ResultPathIsBoundedChain ==
  Planned =>
    \A r \in 1..Len(planResult) :
      /\ planResult[r].depth <= 3
      /\ planResult[r].depth = Len(planResult[r].path)
      /\ IsChainTo(planResult[r].path, planResult[r].objectApiName)

\* A plan that returned an object at the depth limit
C12_Witness ==
  /\ Planned
  /\ planResult # <<>>
  /\ planResult[1].depth = 3
  /\ planResult[1].objectApiName # startObject

\* No object is scored twice, and none deeper than the depth limit
ScoredOnceWithinDepth ==
  /\ \A i, j \in 1..Len(results) :
       results[i].objectApiName = results[j].objectApiName => i = j
  /\ \A i \in 1..Len(results) :
       /\ results[i].depth <= 3
       /\ results[i].objectApiName \in visited

\* C13: planRelationshipPath returns on every schema index, cyclic and
\* self-referencing ones included; each object is visited and scored at
\* most once and no object is expanded deeper than depth 3.
C13_PlanTerminates == []ScoredOnceWithinDepth /\ <>Planned

\* A finished plan over a schema with a self-referencing lookup and a cycle
\* through the start object, which was offered to dfs again after its visit
C13_Witness ==
  /\ Planned
  /\ \E e \in schemaEdges : EdgePool[e].from = EdgePool[e].to /\ EdgePool[e].from \in visited
  /\ \E e \in schemaEdges :
       /\ EdgePool[e].to = startObject
       /\ EdgePool[e].from # startObject
       /\ EdgePool[e].from \in visited
  /\ Len(results) > 1

\* ------------------------------------------------------------------------
\* Properties of the field selector
\* ------------------------------------------------------------------------

\* C3 (as stated): for a dotted field name with any number of segments,
\* isFieldAllowed returns true only if the last segment is Name and the
\* relationship segment is registered (under its own name or its __r form)
\* in the object's parent-relationship map; for an undotted name it returns
\* true exactly when the name is readable or is Id or Name; it returns
\* false for an object without an entry in the index.
C3_IsFieldAllowedContract ==
  fieldPc = "checked" =>
    IF fieldObject \notin DOMAIN fieldIndex THEN ~fieldAllowed
    ELSE LET obj == fieldIndex[fieldObject]
             segments == SplitDots(fieldName)
         IN IF Includes(fieldName, ".")
            THEN fieldAllowed =>
                   /\ segments[Len(segments)] = "Name"
                   /\ \/ MapHas(obj.relationships, segments[1])
                      \/ MapHas(obj.relationships, segments[1] \o "__r")
            ELSE fieldAllowed <=>
                   (fieldName \in obj.readable \/ fieldName \in {"Id", "Name"})

\* A dotted name of three segments whose last segment is not Name is allowed
C3_Witness ==
  /\ fieldPc = "checked"
  /\ fieldAllowed
  /\ Len(SplitDots(fieldName)) > 2
  /\ SplitDots(fieldName)[Len(SplitDots(fieldName))] # "Name"

\* a is obtained from b by deleting elements
RECURSIVE IsSubsequenceFrom(_, _, _, _)
IsSubsequenceFrom(a, b, i, j) ==
  IF i > Len(a) THEN TRUE
  ELSE IF j > Len(b) THEN FALSE
       ELSE IF a[i] = b[j] THEN IsSubsequenceFrom(a, b, i + 1, j + 1)
            ELSE IsSubsequenceFrom(a, b, i, j + 1)

IsSubsequence(a, b) == IsSubsequenceFrom(a, b, 1, 1)

\* C4: the output of filterAllowedFields is a sub-sequence of the requested
\* fields (nothing added, order kept) and each of its fields passes
\* isFieldAllowed on the same index and object.
C4_FilterIsAllowedSubsequence ==
  fieldPc = "filtered" =>
    /\ IsSubsequence(filteredFields, requestedFields)
    /\ \A k \in 1..Len(filteredFields) :
         isFieldAllowed(fieldIndex, fieldObject, filteredFields[k])

\* A call that kept the second requested field and dropped the first
C4_Witness ==
  /\ fieldPc = "filtered"
  /\ Len(requestedFields) = 2
  /\ filteredFields = <<requestedFields[2]>>
  /\ requestedFields[1] # requestedFields[2]

\* ------------------------------------------------------------------------
\* Properties of buildDescribeIndex
\* ------------------------------------------------------------------------

RequestedNames == {ixObjects[i] : i \in 1..Len(ixObjects)} \ {""}

\* C7: buildDescribeIndex never raises and returns an entry for every
\* distinct non-empty requested name, whatever describe calls fail: an object
\* whose describe failed has the entry with no describe and empty field map,
\* readable set and relationship maps, and every other object has the entry
\* built from its payload (the describer's, or the cached one), which does
\* not depend on the failures.
C7_IndexSurvivesDescribeFailures ==
  /\ ixPc # "raised"
  /\ ixPc = "done" =>
       /\ DOMAIN index = RequestedNames
       /\ DOMAIN ixSource = RequestedNames
       /\ \A n \in RequestedNames :
            /\ ixSource[n] = "failed" =>
                 /\ n \in ixFailing
                 /\ index[n].describe = <<>>
                 /\ index[n].fieldMap = <<>>
                 /\ index[n].readable = {}
                 /\ index[n].relationships = <<>>
                 /\ index[n].childRelationships = <<>>
            /\ ixSource[n] = "remote" =>
                 /\ n \notin ixFailing
                 /\ index[n] = EntryFromDescribe(DescribeOf(n, IxEdges))
            /\ ixSource[n] = "cache" =>
                 index[n] = EntryFromDescribe(describeCache[<<ixOrgId, n>>].value)

\* A batch of two whose first describe failed and whose second succeeded
C7_Witness ==
  /\ ixPc = "done"
  /\ Len(ixUnique) = 2
  /\ ixSource[ixUnique[1]] = "failed"
  /\ ixSource[ixUnique[2]] = "remote"
  /\ index[ixUnique[2]].relationships # <<>>

\* ------------------------------------------------------------------------
\* Properties of expandDescribeIndex
\* ------------------------------------------------------------------------

Expanded == exPc = "done"

\* The neighbours of the start object according to the index passed in
StartNeighbors ==
  LET ns == listNeighborApis(exInitial, exStart)
  IN {ns[k] : k \in 1..Len(ns)}

\* C14: expandDescribeIndex never raises, whichever neighbour describes
\* fail; every entry the index had before the call is unchanged; and with
\* maxDepth at least 1 every neighbour of the indexed start object has an
\* entry afterwards: the one it had, else the one built from its describe,
\* else (its describe failed) the entry with empty maps.
C14_ExpandSurvivesDescribeFailures ==
  /\ exPc # "raised"
  /\ ixPc # "raised"
  /\ Expanded =>
       /\ \A n \in DOMAIN exInitial : n \in DOMAIN exIndex /\ exIndex[n] = exInitial[n]
       /\ exMaxDepth >= 1 =>
            \A b \in StartNeighbors :
              /\ b \in DOMAIN exIndex
              /\ b \notin DOMAIN exInitial =>
                   exIndex[b] = IF b \in ixFailing THEN EmptyEntry
                                ELSE EntryFromDescribe(DescribeOf(b, IxEdges))

\* An expansion by one level from an index built for the start object alone,
\* in which one neighbour's describe failed and another's succeeded
C14_Witness ==
  /\ Expanded
  /\ exMaxDepth = 1
  /\ DOMAIN exInitial = {exStart}
  /\ \E b \in StartNeighbors : b \in ixFailing /\ exIndex[b] = EmptyEntry
  /\ \E b \in StartNeighbors : b \notin ixFailing /\ exIndex[b].fieldMap # <<>>

\* ------------------------------------------------------------------------
\* Properties of the clarification memory
\* ------------------------------------------------------------------------

LookedUp == rqPc \in {"resolved", "resolving", "asked", "failed"}

\* C15: when a clarification answer {object: X} was stored for (sessionId,
\* question) and the session has not expired since, a /generate or
\* /generate/stream request with that sessionId and question whose lookup
\* happens before the session expires takes X (the latest answer stored) as
\* the resolved object, does not call the resolver and does not ask for
\* clarification.
C15_ClarificationReused ==
  (LookedUp /\ rqExpected # <<>>) =>
    /\ rqPc = "resolved"
    /\ rqResolved = rqExpected[1]
    /\ ~rqResolverCalled

\* A second request of a session reuses an answer after the first request
\* had to ask, with time passed since the answer was stored
C15_Witness ==
  /\ rqPc = "resolved"
  /\ rqExpected # <<>>
  /\ rqCount = 2
  /\ ~rqResolverCalled
  /\ rqResolved = rqExpected[1]
  /\ sessionNow > mem[rqSession].data.clarifications[rqQuestion].timestamp

\* The resolver is called for a request whenever nothing is remembered
ResolverCalledWhenForgotten ==
  (rqPc \in {"asked", "failed"} \/ (rqPc = "resolved" /\ rqExpected = <<>>))
    => rqResolverCalled

\* ------------------------------------------------------------------------
\* Properties of pickGroupByLookup
\* ------------------------------------------------------------------------

AdministrativeLookups == {"OwnerId", "CreatedById", "LastModifiedById", "RecordTypeId"}

GroupFields ==
  IF gbObject \in DOMAIN gbIndex /\ gbIndex[gbObject].describe # <<>>
  THEN gbIndex[gbObject].describe[1].fields ELSE <<>>

\* Positions of the lookup fields that are not administrative
GroupCandidates ==
  {k \in 1..Len(GroupFields) :
     /\ GroupFields[k].relationshipName # ""
     /\ GroupFields[k].referenceTo # <<>>
     /\ GroupFields[k].name \notin AdministrativeLookups}

\* The candidates with their scores (in twentieths)
ScoredCandidates ==
  {<<k, LookupScore(GroupFields[k], lowerKeywords(gbKeywords))>> : k \in GroupCandidates}

\* The candidates of maximal score
TopOf(scored) == {p \in scored : \A q \in scored : q[2] <= p[2]}

\* The first in describe order
FirstOf(scored) == CHOOSE p \in scored : \A q \in scored : p[1] <= q[1]

GroupBestNotAllowed ==
  /\ gbPc = "picked"
  /\ gbResult = <<>>
  /\ LET top == TopOf(ScoredCandidates)
     IN top # {} /\ FirstOf(top)[2] > 0

ListedNames == {sf.sobjects[i].name : i \in 1..Len(sf.sobjects)}

SuggestedWith(apiName, least) ==
  \E k \in 1..Len(Suggestions) :
    Suggestions[k].apiName = apiName /\ RLe(least, Suggestions[k].confidence)

\* "show me custmers" at threshold 0.6 with fuzzy search enabled, Account
\* listed and no synonyms configured
TypoScenario ==
  /\ question = "show me custmers"
  /\ sf.ok /\ "Account" \in ListedNames
  /\ orgProfile.objectSynonyms = <<>>
  /\ options.threshold = Rat(6, 10)
  /\ options.enableFuzzySearch

\* C18 (as stated): in the typo scenario the exact and partial stages find
\* nothing, the fuzzy stage runs, and the result has Account among the
\* suggestions with confidence at least 0.6.
C18_TypoSurfacesAccount ==
  TypoScenario =>
    /\ pc = "partial" => (matches = <<>> /\ FuzzyStageRuns(matches, options.enableFuzzySearch))
    /\ Returned => SuggestedWith("Account", Rat(6, 10))

\* What the code does in the typo scenario: no keyword, no match, no suggestion
TypoFindsNothing ==
  (TypoScenario /\ Returned) =>
    /\ keywords = <<>>
    /\ matches = <<>>
    /\ ~result[1].success
    /\ Suggestions = <<>>

\* "show me items" with Account and demo__Item__c (label Item, no plural
\* label) listed
ItemScenario ==
  /\ question = "show me items"
  /\ sf.ok /\ {"Account", "demo__Item__c"} \subseteq ListedNames

KeywordsExtracted == pc \in {"keywords", "exact", "partial", "fuzzy", "ranked", "done"}

KeywordSet == {keywords[k] : k \in 1..Len(keywords)}

MatchedIn(stage, apiName) ==
  \E k \in 1..Len(matches) : matches[k].apiName = apiName /\ matches[k].matchType = stage

PrimaryIs(apiName) ==
  /\ result[1].success
  /\ Len(result[1].primaryMatch) = 1
  /\ result[1].primaryMatch[1].apiName = apiName

\* C19 (as stated): in the item scenario the keywords are {item, items}, the
\* exact stage matches demo__Item__c, and the result is success=true with
\* primaryMatch demo__Item__c.
C19_ItemsResolvedExactly ==
  ItemScenario =>
    /\ KeywordsExtracted => KeywordSet = {"item", "items"}
    /\ pc = "exact" => MatchedIn("exact", "demo__Item__c")
    /\ Returned => PrimaryIs("demo__Item__c")

\* C19 (amended): in the item scenario the only keyword is items, the exact
\* stage matches nothing, the partial stage matches demo__Item__c with
\* confidence 0.8, and the result is success=true with primaryMatch
\* demo__Item__c.
C19_ItemsResolvedPartially ==
  ItemScenario =>
    /\ KeywordsExtracted => keywords = <<"items">>
    /\ pc = "exact" => matches = <<>>
    /\ pc = "partial" =>
         \E k \in 1..Len(matches) :
           /\ matches[k].apiName = "demo__Item__c"
           /\ matches[k].matchType = "partial"
           /\ matches[k].confidence = Rat(8, 10)
    /\ Returned => PrimaryIs("demo__Item__c")

\* The item scenario has returned demo__Item__c from a partial match
C19_Witness ==
  /\ ItemScenario
  /\ Returned
  /\ PrimaryIs("demo__Item__c")
  /\ result[1].primaryMatch[1].matchType = "partial"

\* ------------------------------------------------------------------------
\* Properties of calculateSimilarity
\* ------------------------------------------------------------------------

\* C20: similarity(x, x) = 1 for non-empty x, similarity(x, y) = 0 when x or
\* y is empty, similarity(x, y) lies in [0, 1], and similarity(x, y) =
\* similarity(y, x).
C20_SimilarityLaws ==
  /\ simPc \in {"forward", "both"} =>
       /\ (simStr1 = simStr2 /\ simStr1 # "") => simForward = ROne
       /\ (simStr1 = "" \/ simStr2 = "") => simForward = RZero
       /\ InUnitInterval(simForward)
  /\ simPc = "both" => simForward = simBackward

\* Both calls made on different strings of different lengths, with a
\* similarity strictly between 0 and 1
C20_Witness ==
  /\ simPc = "both"
  /\ Len(simStr1) < Len(simStr2)
  /\ RLt(RZero, simForward)
  /\ RLt(simForward, ROne)
  /\ simForward = simBackward

\* ------------------------------------------------------------------------
\* Properties of the describe cache under buildDescribeIndex
\* ------------------------------------------------------------------------

\* The cache holds an entry for key that has not expired at time t
HoldsUnexpired(cache, key, t) == key \in DOMAIN cache /\ ~(t > cache[key].expiresAt)

\* The key of the object the loop is at
CurrentKey == <<ixOrgId, ixUnique[ixPos]>>

\* One step of a call that was given an org id
CacheStep ==
  ixOrgId # "" =>
    \* the describer is called only on a miss
    /\ (ixPc = "loop" /\ ixPc' = "describing") =>
         ~HoldsUnexpired(describeCache, CurrentKey, now)
    \* an object handled without the describer had an unexpired entry, and
    \* its index entry is built from the cached payload
    /\ (ixPc = "loop" /\ ixPos' = ixPos + 1) =>
         /\ HoldsUnexpired(describeCache, CurrentKey, now)
         /\ index'[ixUnique[ixPos]] = EntryFromDescribe(describeCache[CurrentKey].value)
         /\ describeCache' = describeCache
    \* a successful describe is stored with a fresh TTL
    /\ (ixPc = "describing" /\ ixPos' = ixPos + 1 /\ ixUnique[ixPos] \notin ixFailing) =>
         /\ CurrentKey \in DOMAIN describeCache'
         /\ describeCache'[CurrentKey] =
              [value |-> DescribeOf(ixUnique[ixPos], IxEdges),
               expiresAt |-> now + DEFAULT_TTL_MS]
    \* a failed describe leaves the cache as it is
    /\ (ixPc = "describing" /\ ixPos' = ixPos + 1 /\ ixUnique[ixPos] \in ixFailing) =>
         describeCache' = describeCache

\* C22: with an org id, buildDescribeIndex consults the cache before the
\* describer for each object and calls the describer exactly when the cache
\* holds no unexpired entry for (org, object); a successful describe leaves
\* its payload in the cache under (org, object) with a fresh TTL, a failed
\* one leaves the cache unchanged.
C22_CacheBeforeDescriber == [][CacheStep]_vars

\* A call with an org id has returned after re-describing Account, whose
\* cached entry had expired, and after a failed describe of another object
\* that left no entry
C22_Witness ==
  /\ ixPc = "done"
  /\ ixOrgId = "org1"
  /\ Len(ixUnique) = 2
  /\ "Account" \in DOMAIN ixSource /\ ixSource["Account"] = "remote"
  /\ describeCache[<<"org1", "Account">>].expiresAt > DEFAULT_TTL_MS
  /\ \E n \in DOMAIN ixSource :
       ixSource[n] = "failed" /\ <<"org1", n>> \notin DOMAIN describeCache

\* A call with an org id has taken an object from the cache
CacheHitSeen ==
  /\ ixPc = "done"
  /\ ixOrgId = "org1"
  /\ \E n \in DOMAIN ixSource : ixSource[n] = "cache"

\* ------------------------------------------------------------------------
\* Reach of expandDescribeIndex
\* ------------------------------------------------------------------------

\* The objects within d relationship hops of start in the schema
RECURSIVE WithinHops(_, _)
WithinHops(start, d) ==
  IF d = 0 THEN {start}
  ELSE LET nearer == WithinHops(start, d - 1)
       IN nearer \cup UNION {NeighborsInSchema(n) : n \in nearer}

\* The objects at exactly d hops
AtHops(start, d) ==
  IF d = 0 THEN {start} ELSE WithinHops(start, d) \ WithinHops(start, d - 1)

\* The index passed in holds start and agrees with the describer
AccurateInitial ==
  /\ exStart \in DOMAIN exInitial
  /\ \A n \in DOMAIN exInitial : exInitial[n] = EntryFromDescribe(DescribeOf(n, IxEdges))

\* C24 (as stated): after expandDescribeIndex returns with every describe
\* succeeding, every object within maxDepth hops of start has an entry, for
\* every initial index that holds start (and possibly some neighbours), and
\* the call described no object farther away than maxDepth hops.
C24_ExpandReachesDepth ==
  (Expanded /\ AccurateInitial /\ ixFailing = {}) =>
    /\ WithinHops(exStart, exMaxDepth) \subseteq DOMAIN exIndex
    /\ (DOMAIN exIndex \ DOMAIN exInitial) \subseteq WithinHops(exStart, exMaxDepth)

\* No round below maxDepth finds all unvisited neighbours of its frontier
\* indexed already
NoRoundFullyIndexed ==
  \A d \in 1..(exMaxDepth - 1) :
    AtHops(exStart, d) # {} => ~(AtHops(exStart, d) \subseteq DOMAIN exInitial)

\* What holds: the same, for the initial indexes in which no round below
\* maxDepth is fully indexed (such as an index that holds start alone)
ExpandReachesDepthUnlessFullyIndexed ==
  (Expanded /\ AccurateInitial /\ ixFailing = {} /\ NoRoundFullyIndexed) =>
    /\ WithinHops(exStart, exMaxDepth) \subseteq DOMAIN exIndex
    /\ (DOMAIN exIndex \ DOMAIN exInitial) \subseteq WithinHops(exStart, exMaxDepth)

\* An expansion by two levels from an index that also held Case has described
\* objects two hops away
ExpandedTwoLevels ==
  /\ Expanded /\ AccurateInitial /\ ixFailing = {} /\ NoRoundFullyIndexed
  /\ exMaxDepth = 2
  /\ Cardinality(DOMAIN exInitial) = 2
  /\ AtHops(exStart, 2) # {}
  /\ AtHops(exStart, 2) \subseteq DOMAIN exIndex

\* The case C24 speaks of, where it goes wrong: an expansion without describe
\* failures, from an accurate index that already held every neighbor of the
\* start, has ended and an object within maxDepth hops has no entry
C24_Witness ==
  /\ Expanded /\ AccurateInitial /\ ixFailing = {}
  /\ NeighborsInSchema(exStart) \subseteq DOMAIN exInitial
  /\ WithinHops(exStart, exMaxDepth) \ DOMAIN exIndex # {}
\* ------------------------------------------------------------------------
\* Properties of the partial and fuzzy stages
\* ------------------------------------------------------------------------

\* the candidates are complete and about to enter the re-ranking
EntersReranking == pc = "fuzzy"

LengthRatio(keyword, key) ==
  Rat(IntMin(Len(keyword), Len(key)), IntMax(Len(keyword), Len(key)))

\* the catalog keys that the partial stage pairs with the candidate m
PartialKeysOf(m) ==
  {i \in 1..Len(catalog) :
     /\ Includes(catalog[i].key, m.keyword) \/ Includes(m.keyword, catalog[i].key)
     /\ \E k \in 1..Len(catalog[i].objects) :
          /\ catalog[i].objects[k].apiName = m.apiName
          /\ catalog[i].objects[k].matchedBy = m.matchedBy}

PartialMatches == {k \in 1..Len(matches) : matches[k].matchType = "partial"}

\* C25: every candidate of the partial stage enters the re-ranking with
\* matchType partial and with confidence min(len(keyword), len(key)) /
\* max(len(keyword), len(key)) for a catalog key that contains the keyword or
\* is contained in it.
C25_PartialConfidenceIsLengthRatio ==
  EntersReranking =>
    \A k \in PartialMatches :
      \E i \in PartialKeysOf(matches[k]) :
        matches[k].confidence = LengthRatio(matches[k].keyword, catalog[i].key)

\* A partial candidate enters the re-ranking with the confidence 0.8 although
\* no key it matched has that length ratio
C25_Witness ==
  /\ EntersReranking
  /\ \E k \in PartialMatches :
       /\ matches[k].confidence = Rat(8, 10)
       /\ PartialKeysOf(matches[k]) # {}
       /\ \A i \in PartialKeysOf(matches[k]) :
            LengthRatio(matches[k].keyword, catalog[i].key) # Rat(8, 10)

\* what the code does: every partial candidate carries the literal 0.8
PartialConfidenceIsFixed ==
  EntersReranking =>
    \A k \in PartialMatches :
      PartialKeysOf(matches[k]) # {} /\ matches[k].confidence = Rat(8, 10)

FuzzyMatches == {k \in 1..Len(matches) : matches[k].matchType = "fuzzy"}

\* the candidates of the exact and partial stages
EarlierMatches == {k \in 1..Len(matches) : matches[k].matchType # "fuzzy"}

FuzzyIsDue ==
  /\ options.enableFuzzySearch
  /\ \A k \in EarlierMatches : RLe(matches[k].confidence, Rat(7, 10))

\* keyword position and catalog key whose similarity reaches the threshold
FuzzyHits ==
  {h \in (1..Len(keywords)) \X (1..Len(catalog)) :
     RLe(options.threshold, calculateSimilarity(keywords[h[1]], catalog[h[2]].key))}

\* the candidate m is the object at position j of the key of hit h, with
\* the given confidence
IsContribution(m, h, j, confidence) ==
  /\ m.keyword = keywords[h[1]]
  /\ m.apiName = catalog[h[2]].objects[j].apiName
  /\ m.matchedBy = catalog[h[2]].objects[j].matchedBy
  /\ m.confidence = confidence

\* C26: the fuzzy stage runs exactly when fuzzy search is enabled and no
\* candidate of the exact and partial stages has confidence above 0.7; when it
\* runs, a catalog key contributes candidates for a keyword exactly when
\* similarity(keyword, key) is at least the threshold, one per object of the
\* key, each with that similarity as its confidence.
C26_FuzzyStageGuardAndThreshold ==
  EntersReranking =>
    /\ ~FuzzyIsDue => FuzzyMatches = {}
    /\ FuzzyIsDue =>
         LET hits == FuzzyHits
             contributions ==
               UNION {{<<h, j>> : j \in 1..Len(catalog[h[2]].objects)} : h \in hits}
         IN /\ \A h \in hits :
                 LET similarity == calculateSimilarity(keywords[h[1]], catalog[h[2]].key)
                 IN \A j \in 1..Len(catalog[h[2]].objects) :
                      \E k \in FuzzyMatches : IsContribution(matches[k], h, j, similarity)
            /\ \A k \in FuzzyMatches :
                 \E c \in contributions :
                   /\ matches[k].keyword = keywords[c[1][1]]
                   /\ IsContribution(matches[k], c[1], c[2],
                        calculateSimilarity(matches[k].keyword, catalog[c[1][2]].key))
            /\ Cardinality(FuzzyMatches) = Cardinality(contributions)

\* The fuzzy stage has run and taken one key while leaving out another whose
\* similarity is below the threshold
C26_Witness ==
  /\ EntersReranking
  /\ FuzzyIsDue
  /\ FuzzyMatches # {}
  /\ \E k \in 1..Len(keywords), i \in 1..Len(catalog) :
       RLt(calculateSimilarity(keywords[k], catalog[i].key), options.threshold)

\* The fuzzy stage was enabled and has been held back by a partial candidate
FuzzyHeldBack ==
  /\ EntersReranking
  /\ options.enableFuzzySearch
  /\ ~FuzzyIsDue
  /\ \A k \in 1..Len(matches) : matches[k].matchType = "partial"
  /\ FuzzyHits # {}

\* ------------------------------------------------------------------------
\* Properties of planRelationshipPath without keywords
\* ------------------------------------------------------------------------

\* for (const step of path?.path || [])
\*   if (step.type === 'parent' && step.relName) tentative.push(`${step.relName}__r.Name`)
RECURSIVE TentativeFrom(_, _)
TentativeFrom(path, k) ==
  IF k > Len(path) THEN <<>>
  ELSE (IF path[k].type = "parent" /\ path[k].relName # ""
        THEN << path[k].relName \o "__r.Name" >> ELSE <<>>)
       \o TentativeFrom(path, k + 1)

\* the parent lookup names the generate routes derive from a plan
ParentLookupNames(plan) ==
  IF plan = <<>> THEN <<>> ELSE Slice0(TentativeFrom(plan[1].path, 1), 2)

\* C28: a plan without keywords from a start object that is indexed and not
\* forbidden scores every visited object 0 and returns the start object with
\* depth 0 and an empty path; the parent lookup names derived from a plan
\* without keywords are empty whatever the start object.
C28_NoKeywordsPlansStart ==
  (Planned /\ targetKeywords = <<>>) =>
    /\ (startObject \in DOMAIN describeIndex /\ ~isProblematicSystemObject(startObject)) =>
         /\ \A k \in 1..Len(results) : results[k].score = 0
         /\ Len(planResult) = 1
         /\ planResult[1].objectApiName = startObject
         /\ planResult[1].depth = 0
         /\ planResult[1].path = <<>>
    /\ ParentLookupNames(planResult) = <<>>

\* A plan without keywords has scored an object reached over a parent
\* relationship and has returned the start
C28_Witness ==
  /\ Planned
  /\ targetKeywords = <<>>
  /\ planResult # <<>>
  /\ planResult[1].objectApiName = startObject
  /\ \E k \in 1..Len(results) :
       /\ results[k].depth >= 2
       /\ TentativeFrom(results[k].path, 1) # <<>>

\* ------------------------------------------------------------------------
\* Properties of trackObjectUsage
\* ------------------------------------------------------------------------

TrackedSession == trMem["dev"].data

CallsOf(objectApiName) == {k \in 1..Len(trLog) : trLog[k].object = objectApiName}

SuccessesOf(objectApiName) == {k \in CallsOf(objectApiName) : trLog[k].success}

RetrySettled == rtPc \in {"resolved", "rejected"}

FailedCalls == {k \in 1..Len(rtCalls) : ~rtCalls[k].ok}

\* C30: withRetry calls the task at most retries + 1 times; it resolves with
\* the first success and makes no further attempt; it rejects at once, with
\* that error, when shouldRetry returns false for an error; and it rejects
\* with the last error when all retries + 1 attempts have failed.
C30_RetryContract ==
  /\ Len(rtCalls) <= IntMax(rtRetries + 1, 0)
  /\ \A k \in 1..(Len(rtCalls) - 1) :
       ~rtCalls[k].ok /\ shouldRetry(rtPolicy, rtCalls[k].error)
  /\ RetrySettled => ~ENABLED RetryNext
  /\ \A k \in 1..Len(rtCalls) :
       rtCalls[k].ok => rtPc = "resolved" /\ rtSettled = <<rtCalls[k].value>>
  /\ \A k \in FailedCalls :
       ~shouldRetry(rtPolicy, rtCalls[k].error) =>
         rtPc = "rejected" /\ rtSettled = <<rtCalls[k].error>>
  /\ (Len(rtCalls) = rtRetries + 1 /\ FailedCalls = 1..Len(rtCalls) /\ rtCalls # <<>>) =>
       rtPc = "rejected" /\ rtSettled = <<rtCalls[Len(rtCalls)].error>>
  /\ rtPc = "resolved" => rtCalls # <<>> /\ rtCalls[Len(rtCalls)].ok
  /\ (rtPc = "rejected" /\ rtRetries >= 0) =>
       /\ rtCalls # <<>>
       /\ ~rtCalls[Len(rtCalls)].ok
       /\ \/ Len(rtCalls) = rtRetries + 1
          \/ ~shouldRetry(rtPolicy, rtCalls[Len(rtCalls)].error)

\* Every allowed attempt was made and failed, and the promise is rejected
C30_Witness ==
  /\ rtPc = "rejected"
  /\ rtRetries >= 2
  /\ Len(rtCalls) = rtRetries + 1
  /\ rtSettled = <<rtCalls[Len(rtCalls)].error>>

\* A success after failures has resolved the promise
RetryRecovered ==
  /\ rtPc = "resolved"
  /\ Len(rtCalls) >= 2

\* An error the policy does not retry has rejected the promise with attempts
\* to spare
RetryRefused ==
  /\ rtPc = "rejected"
  /\ Len(rtCalls) >= 2
  /\ Len(rtCalls) < rtRetries + 1

\* ------------------------------------------------------------------------
\* Properties of levenshteinDistance
\* ------------------------------------------------------------------------

\* x with the character at position i removed
Without(x, i) == SubSeq(x, 1, i - 1) \o SubSeq(x, i + 1, Len(x))

\* y arises from x by one insertion, one deletion or one substitution of a
\* character
OneEdit(x, y) ==
  \/ /\ Len(y) = Len(x)
     /\ \E i \in 1..Len(x) :
          CharAt(x, i) # CharAt(y, i) /\ Without(x, i) = Without(y, i)
  \/ /\ Len(y) = Len(x) + 1
     /\ \E i \in 1..Len(y) : Without(y, i) = x
  \/ /\ Len(x) = Len(y) + 1
     /\ \E i \in 1..Len(x) : Without(x, i) = y

\* The strings an edit sequence may pass through: one character longer than
\* the longest argument
EditUniverse == LevStrings(MaxLevLen + 1)

OneEditAway == [x \in EditUniverse |-> {y \in EditUniverse : OneEdit(x, y)}]

\* The strings reachable from x by at most k edits
RECURSIVE WithinEdits(_, _)
WithinEdits(x, k) ==
  IF k = 0 THEN {x}
  ELSE LET nearer == WithinEdits(x, k - 1)
       IN nearer \cup UNION {OneEditAway[y] : y \in nearer}

\* The least number of edits that turn x into y
RECURSIVE MinEditsFrom(_, _, _)
MinEditsFrom(x, y, k) ==
  IF y \in WithinEdits(x, k) THEN k ELSE MinEditsFrom(x, y, k + 1)

MinEdits == [p \in LevStrings(MaxLevLen) \X LevStrings(MaxLevLen) |->
               MinEditsFrom(p[1], p[2], 0)]

\* C21: levenshteinDistance(a, b) is the least number of single-character
\* insertions, deletions and substitutions that turn a into b, and so
\* levenshteinDistance(a, b) <= levenshteinDistance(a, c) +
\* levenshteinDistance(c, b).
C21_EditDistanceIsMinimalEdits ==
  levPc = "done" =>
    /\ levAB = MinEdits[<<levA, levB>>]
    /\ levAC = MinEdits[<<levA, levC>>]
    /\ levCB = MinEdits[<<levC, levB>>]
    /\ levAB <= levAC + levCB

\* The distances of three different strings, where going over the third
\* costs more than the direct way and the direct way needs a deletion, an
\* insertion or a substitution at more than one place
C21_Witness ==
  /\ levPc = "done"
  /\ levAB >= 2
  /\ Len(levA) # Len(levB)
  /\ levAC >= 1
  /\ levCB >= 1
  /\ levAB < levAC + levCB

\* ------------------------------------------------------------------------
\* Properties of POST /generate
\* ------------------------------------------------------------------------

QueriesOfTarget == {k \in 1..Len(gnSent) : gnSent[k].object = gnTarget}

\* C23: no SOQL query for the target object, the COUNT() pre-count
\* included, is sent before validateQuerySecurity has returned allowed=true;
\* a request whose target is among the blocked objects is answered with 403
\* access_denied and its target is never queried.
C23_NoQueryBeforeSecurityCheck ==
  /\ QueriesOfTarget # {} => gnSecurity = <<TRUE>>
  /\ gnTarget \in gnBlocked =>
       /\ QueriesOfTarget = {}
       /\ gnPc = "done" => gnResponse = <<[status |-> 403, body |-> "access_denied"]>>

\* The pre-count of a blocked object was sent and the request was then
\* refused
C23_Witness ==
  /\ gnPc = "done"
  /\ gnTarget \in gnBlocked
  /\ gnSent = <<[kind |-> "count", object |-> gnTarget]>>
  /\ gnResponse = <<[status |-> 403, body |-> "access_denied"]>>

\* what the code does keep: the query for the records follows a security
\* check that allowed it, and a blocked object's records are never queried
DataQueryAfterSecurityCheck ==
  \A k \in 1..Len(gnSent) :
    gnSent[k].kind = "data" => gnSecurity = <<TRUE>> /\ gnTarget \notin gnBlocked

\* ------------------------------------------------------------------------
\* Properties of concurrent index builds
\* ------------------------------------------------------------------------

\* Every entry is the whole payload of a successful describe of its object,
\* with the life its last writer gave it
CacheEntriesWhole(cache, written) ==
  \A k \in DOMAIN cache :
    /\ cache[k].value = DescribeOf(k[2], IxEdges)
    /\ cache[k].expiresAt = written[k] + DEFAULT_TTL_MS

\* The index the call returns when it runs alone
AloneIndex(p) ==
  LET unique == UniqueObjects(ccProc[p].objects)
      built == [n \in {unique[k] : k \in 1..Len(unique)} |->
                  IF n \in ccFailing THEN EmptyEntry
                  ELSE EntryFromDescribe(DescribeOf(n, IxEdges))]
  IN IF ccProc[p].kind = "build" THEN built
     ELSE MergeNeighborIndex(DescribedIndex({ccProc[p].start}), built)

\* The keys whose entry a step adds, replaces or removes
KeysTouched ==
  {k \in DOMAIN ccCache \cup DOMAIN ccCache' :
     \/ k \notin DOMAIN ccCache
     \/ k \notin DOMAIN ccCache'
     \/ ccCache[k] # ccCache'[k]}

\* The key of the object a call is working on
KeyAt(p) ==
  IF ccProc[p].pc \in {"loop", "describing"} /\ ccProc[p].pos <= Len(ccProc[p].unique)
  THEN {<<ccProc[p].orgId, ccProc[p].unique[ccProc[p].pos]>>}
  ELSE {}

ConcStep ==
  /\ CacheEntriesWhole(ccCache', ccWritten')
  /\ \E p \in Procs :
       /\ KeysTouched \subseteq KeyAt(p)
       /\ \A q \in Procs \ {p} : ccProc'[q] = ccProc[q]
  /\ \A p \in Procs : ccProc'[p].pc = "done" => ccProc'[p].result = AloneIndex(p)

\* C27: under every interleaving of the concurrent calls each cache entry is
\* absent or the whole payload of one successful describe of its object as
\* its last writer stored it; a step of a call touches no entry but the one
\* of the (org, object) it is working on; and the index each call returns
\* is the index it returns when it runs alone.
C27_ConcurrentCallsIndependent == [][ConcStep]_vars

\* Both calls described the same object of the same org while the other was
\* waiting, both wrote it, and both have returned
C27_Witness ==
  /\ ccProc # <<>>
  /\ \A p \in Procs : ccProc[p].pc = "done"
  /\ ccProc[1].orgId = ccProc[2].orgId
  /\ ccNow > 0
  /\ \E k \in DOMAIN ccCache :
       /\ ccWritten[k] = ccNow
       /\ k[2] \in DOMAIN ccProc[1].result
       /\ k[2] \in DOMAIN ccProc[2].index

\* Both calls are waiting for the describe of the same object at once
BothDescribing ==
  /\ ccProc # <<>>
  /\ \A p \in Procs : ccProc[p].pc = "describing"
  /\ KeyAt(1) = KeyAt(2)

====
